---- MODULE Spec2Model ----
(***************************************************************************)
(* Model of the API gateway of the Autosalon microservices                 *)
(* (src/api-gateway-service/main.py): one inbound request at a time is     *)
(* taken through gateway_handler, the downstream service answers or fails, *)
(* and the gateway relays the answer or maps the failure.                  *)
(*                                                                         *)
(* Strings the code only compares by equality are TLA+ strings.  A request *)
(* path is a sequence of tokens: the separator "/" and the segments        *)
(* between separators.  Every prefix the code tests with startswith ends   *)
(* in a separator, so equality and startswith on token sequences decide    *)
(* exactly what they decide on the characters.  An Authorization value is  *)
(* the sequence of words that authorization.split(" ") yields.             *)
(***************************************************************************)
EXTENDS Integers, Sequences, FiniteSets, TLC

VARIABLES
    pc,               \* position of the request: "idle", "forwarding", "done"
    request,          \* the inbound request (RequestContext), None when idle
    user_data,        \* claims attached by gateway_handler, None when absent
    service_url,      \* backend chosen by the routing chain, "" when none
    forward_path,     \* remaining path after the matched prefix
    downstream_calls, \* calls issued with client.request for this request
    response,         \* the gateway's answer, None until the request ends
    path,             \* the normalised path (line 106)
    downstream_result, \* what client.request returned or raised, None before
    \* read_root (GET /)
    root_pc,          \* "idle", "probing", "done"
    probes_started,   \* services whose probe client.get has been issued, in order
    probe_outcome,    \* service -> what its probe returned or raised
    stats,            \* the dict read_root builds, None when idle
    root_response,    \* the answer of GET /, None until read_root returns
    \* MessageBroker (shared/messaging.py) and the broker behind it
    connection,       \* self.connection: "none", "open", "closed"
    channel,          \* self.channel: "none", "open", "closed"
    stale,            \* the peer has dropped the socket of a connection object
                      \* that has not noticed it yet (is_closed is still False)
    clock,            \* the reading of datetime.utcnow()
    sent,             \* messages handed to the broker by basic_publish, in order
    last_publish,     \* the last publish_event call and how it ended, None before
    \* the subscription made with subscribe_to_events
    subscription,     \* "none", "consuming"
    queue,            \* messages in the exclusive queue, not yet handed out
    next_tag,         \* delivery tag of the next message
    settlements,      \* basic_ack / basic_nack calls made on the channel
    handled,          \* messages wrapper was called with, and what happened
    \* the tables of the payment and financing services
    payments,         \* rows of payments, row i has id i
    payment_logs,     \* rows of payment_logs
    applications,     \* rows of financing_applications, row i has id i
    schedules,        \* rows of financing_schedules
    last_op,          \* the last CRUD operation and how it ended, None before
    \* the threads that use the global message_broker
    t_pc,             \* thread -> where it is in publish_event / start_consuming
    opened,           \* number of open connections the MessageBroker has opened
    pending,          \* deliveries waiting in the shared channel, in order
    in_handler,       \* consuming thread -> the delivery its callback works on
    arrivals,         \* number of deliveries made to the shared channel
    \* the HTTP endpoints of the payment and insurance services
    tasks,            \* background tasks added and not yet run (payment ids)
    policies,         \* rows of insurance_policies, row i has id i
    insurance_claims, \* rows of insurance_claims, row i has id i
    last_call,        \* the last endpoint call and its answer, None before
    \* the users table of the auth service
    users,            \* user id -> row of users
    \* the threads that run FinancingCRUD.review_application
    reviews           \* thread -> the call it is in and the row its session
                      \* has loaded, None when it is in no call

gwVars == <<pc, request, user_data, service_url, forward_path,
            downstream_calls, response, path, downstream_result>>

rootVars == <<root_pc, probes_started, probe_outcome, stats, root_response>>

busVars == <<connection, channel, stale, clock, sent, last_publish>>

subVars == <<subscription, queue, next_tag, settlements, handled>>

crudVars == <<payments, payment_logs, applications, schedules, last_op>>

thrVars == <<t_pc, opened, pending, in_handler, arrivals>>

apiVars == <<tasks, policies, insurance_claims, last_call, users, reviews>>

vars == <<gwVars, rootVars, busVars, subVars, crudVars, thrVars, apiVars>>

\* ---------------------------------------------------------------- bounds
MaxLeadingSlashes == 2
MaxTrailingSegments == 1

\* ------------------------------------------------------------- constants
None == [none |-> TRUE]

SEP == "/"

AUTH_SERVICE_URL == "http://localhost:8001"
PAYMENT_SERVICE_URL == "http://localhost:8002"
FINANCING_SERVICE_URL == "http://localhost:8003"
INSURANCE_SERVICE_URL == "http://localhost:8004"

PUBLIC_ENDPOINTS ==
    << <<>>,
       <<"auth", SEP>>,
       <<"auth", SEP, "register">>,
       <<"auth", SEP, "token">>,
       <<"auth", SEP, "refresh">>,
       <<"auth", SEP, "health">>,
       <<"auth", SEP, "stats">>,
       <<"payment", SEP>>,
       <<"payment", SEP, "health">>,
       <<"payment", SEP, "stats">>,
       <<"financing", SEP>>,
       <<"financing", SEP, "health">>,
       <<"financing", SEP, "stats">>,
       <<"insurance", SEP>>,
       <<"insurance", SEP, "health">>,
       <<"insurance", SEP, "stats">>,
       <<"health">> >>

METHODS == {"GET", "POST", "PUT", "DELETE", "PATCH"}

\* -------------------------------------------------------- string helpers
StartsWith(s, p) == Len(p) <= Len(s) /\ SubSeq(s, 1, Len(p)) = p

LStrip_One(p) ==
    IF p # <<>> /\ Head(p) = SEP THEN Tail(p) ELSE p

\* path.lstrip("/") (line 106) removes every leading separator.
RECURSIVE LStrip(_)
LStrip(p) ==
    IF p # <<>> /\ Head(p) = SEP THEN LStrip(Tail(p)) ELSE p

\* ---------------------------------------------------- token verification
\* AuthUtils.verify_token (shared/auth.py): the claims of a token that is
\* well formed, correctly signed and not expired, None otherwise.
TokenClaims ==
    [tok_client  |-> [sub |-> "7",  email |-> "c@example.org", role |-> "client"],
     tok_manager |-> [sub |-> "8",  email |-> "m@example.org", role |-> "manager"],
     tok_admin   |-> [sub |-> "42", email |-> "a@example.org", role |-> "admin"]]

verify_token(token) ==
    IF token \in DOMAIN TokenClaims THEN TokenClaims[token] ELSE None

\* ------------------------------------------------------ request pipeline
\* request.headers.get("Authorization"): header names are lower-cased by the
\* server and the lookup is case-insensitive.  <<>> stands for Python's None
\* when the header is absent: split(" ") of a string has at least one word.
GetAuthorization(headers) ==
    IF "authorization" \in DOMAIN headers THEN headers["authorization"] ELSE <<>>

NoBearer_AnyScheme(authorization) ==
    \/ authorization = <<>>
    \/ authorization = <<"">>
    \/ Len(authorization) < 2

\* not authorization or not authorization.startswith("Bearer ")
\* (<<"">> is the empty string; a value starts with "Bearer " exactly when
\* its first word is "Bearer" and a second word, possibly empty, follows).
NoBearer(authorization) ==
    \/ authorization = <<>>
    \/ authorization = <<"">>
    \/ ~(Len(authorization) >= 2 /\ authorization[1] = "Bearer")

\* authorization.split(" ")[1]
BearerToken(authorization) == authorization[2]

is_public_endpoint_match_ExactOnly(p) ==
    \E i \in 1..Len(PUBLIC_ENDPOINTS) : p = PUBLIC_ENDPOINTS[i]

\* Lines 115-119: the loop over PUBLIC_ENDPOINTS on the normalised path.
is_public_endpoint_match(p) ==
    \E i \in 1..Len(PUBLIC_ENDPOINTS) :
        \/ p = PUBLIC_ENDPOINTS[i]
        \/ StartsWith(p, PUBLIC_ENDPOINTS[i] \o <<SEP>>)

check_permissions(data, required_roles) ==
    IF data = None THEN FALSE
    ELSE IF required_roles = {} THEN TRUE
    ELSE data.role \in required_roles

Detail(status, msg) == [status_code |-> status, content |-> [detail |-> msg]]

Authenticate_MissingHeaderPasses(p, headers) ==
    LET authorization == GetAuthorization(headers) IN
    IF NoBearer(authorization)
    THEN [deny |-> None, user_data |-> None]
    ELSE LET data == verify_token(BearerToken(authorization)) IN
         IF ~is_public_endpoint_match(p) /\ data = None
         THEN [deny |-> Detail(401, "Invalid token"), user_data |-> None]
         ELSE [deny |-> None, user_data |-> data]

Authenticate_StrictOnPublic(p, headers) ==
    LET authorization == GetAuthorization(headers) IN
    IF NoBearer(authorization)
    THEN IF is_public_endpoint_match(p)
         THEN [deny |-> None, user_data |-> None]
         ELSE [deny |-> Detail(401, "Authentication required"), user_data |-> None]
    ELSE LET data == verify_token(BearerToken(authorization)) IN
         IF data = None
         THEN [deny |-> Detail(401, "Invalid token"), user_data |-> None]
         ELSE [deny |-> None, user_data |-> data]

\* Lines 112-144: the credential step.  deny is the 401 answer or None.
Authenticate(p, headers) ==
    LET authorization == GetAuthorization(headers) IN
    IF ~is_public_endpoint_match(p)
    THEN IF NoBearer(authorization)
         THEN [deny |-> Detail(401, "Authentication required"), user_data |-> None]
         ELSE LET data == verify_token(BearerToken(authorization)) IN
              IF data = None
              THEN [deny |-> Detail(401, "Invalid token"), user_data |-> None]
              ELSE [deny |-> None, user_data |-> data]
    ELSE IF ~NoBearer(authorization)
         THEN [deny |-> None, user_data |-> verify_token(BearerToken(authorization))]
         ELSE [deny |-> None, user_data |-> None]

ROUTES_StaffOnly ==
    << [prefix |-> <<"auth", SEP>>, url |-> AUTH_SERVICE_URL,
        checked |-> FALSE, required_roles |-> {}],
       [prefix |-> <<"payment", SEP>>, url |-> PAYMENT_SERVICE_URL,
        checked |-> TRUE, required_roles |-> {"manager", "admin"}],
       [prefix |-> <<"financing", SEP>>, url |-> FINANCING_SERVICE_URL,
        checked |-> TRUE, required_roles |-> {"manager", "admin"}],
       [prefix |-> <<"insurance", SEP>>, url |-> INSURANCE_SERVICE_URL,
        checked |-> TRUE, required_roles |-> {"manager", "admin"}] >>

\* Lines 150-184: the if/elif chain, in its order.  checked says whether the
\* branch calls check_permissions; required_roles is the list it passes.
ROUTES ==
    << [prefix |-> <<"auth", SEP>>, url |-> AUTH_SERVICE_URL,
        checked |-> FALSE, required_roles |-> {}],
       [prefix |-> <<"payment", SEP>>, url |-> PAYMENT_SERVICE_URL,
        checked |-> TRUE, required_roles |-> {"client", "manager", "admin"}],
       [prefix |-> <<"financing", SEP>>, url |-> FINANCING_SERVICE_URL,
        checked |-> TRUE, required_roles |-> {"client", "manager", "admin"}],
       [prefix |-> <<"insurance", SEP>>, url |-> INSURANCE_SERVICE_URL,
        checked |-> TRUE, required_roles |-> {"client", "manager", "admin"}] >>

RouteMatches(p, i) == StartsWith(p, ROUTES[i].prefix)

\* Index of the first branch whose startswith test holds, 0 for the else.
RouteIndex(p) ==
    IF \E i \in 1..Len(ROUTES) : RouteMatches(p, i)
    THEN CHOOSE i \in 1..Len(ROUTES) :
            /\ RouteMatches(p, i)
            /\ \A j \in 1..(i - 1) : ~RouteMatches(p, j)
    ELSE 0

NeedsPermission_HealthOnly(fwd) == fwd # <<"health">>

\* forward_path not in ["health", ""]
NeedsPermission(fwd) == fwd \notin {<<"health">>, <<>>}

Route_FallsBackToAuth(p, data) ==
    LET i == RouteIndex(p) IN
    IF i = 0
    THEN [deny |-> None, service_url |-> AUTH_SERVICE_URL, forward_path |-> p]
    ELSE LET fwd == SubSeq(p, Len(ROUTES[i].prefix) + 1, Len(p)) IN
         IF /\ ROUTES[i].checked
            /\ NeedsPermission(fwd)
            /\ ~check_permissions(data, ROUTES[i].required_roles)
         THEN [deny |-> Detail(403, "Insufficient permissions"),
               service_url |-> ROUTES[i].url, forward_path |-> fwd]
         ELSE [deny |-> None, service_url |-> ROUTES[i].url, forward_path |-> fwd]

\* Lines 146-184: deny is the 403 or 404 answer, or None when routed.
Route(p, data) ==
    LET i == RouteIndex(p) IN
    IF i = 0
    THEN [deny |-> Detail(404, "Service not found"),
          service_url |-> "", forward_path |-> <<>>]
    ELSE LET fwd == SubSeq(p, Len(ROUTES[i].prefix) + 1, Len(p)) IN
         IF /\ ROUTES[i].checked
            /\ NeedsPermission(fwd)
            /\ ~check_permissions(data, ROUTES[i].required_roles)
         THEN [deny |-> Detail(403, "Insufficient permissions"),
               service_url |-> ROUTES[i].url, forward_path |-> fwd]
         ELSE [deny |-> None, service_url |-> ROUTES[i].url, forward_path |-> fwd]

ForwardHeaders_KeepsHost(headers) == headers

\* headers = dict(request.headers); headers.pop("host", None)
ForwardHeaders(headers) ==
    [k \in (DOMAIN headers) \ {"host"} |-> headers[k]]

\* f"{service_url}/{forward_path}"
Url(base, fwd) == <<base, SEP>> \o fwd

\* ------------------------------------------------------- downstream call
\* response.json(): the structured value of a body that is JSON text; any
\* other body makes it raise JSONDecodeError.
JsonValue == ("{\"ok\": true}" :> [ok |-> TRUE])

IsJson(text) == text \in DOMAIN JsonValue

\* response.headers.get("content-type", "").startswith("application/json")
IsJsonContentType(content_type) == StartsWith(content_type, <<"application/json">>)

\* The exception classes client.request and response.json can raise, each
\* with its base class.
ExceptionBase ==
    [ConnectTimeout      |-> "TimeoutException",
     ReadTimeout         |-> "TimeoutException",
     TimeoutException    |-> "TransportError",
     ConnectError        |-> "TransportError",
     RemoteProtocolError |-> "TransportError",
     TransportError      |-> "RequestError",
     TooManyRedirects    |-> "RequestError",
     RequestError        |-> "Exception",
     InvalidURL          |-> "Exception",
     JSONDecodeError     |-> "Exception",
     Exception           |-> "Exception"]

RECURSIVE IsInstance(_, _)
IsInstance(cls, base) ==
    IF cls = base THEN TRUE
    ELSE IF ExceptionBase[cls] = cls THEN FALSE
    ELSE IsInstance(ExceptionBase[cls], base)

EXCEPT_CLAUSES_RequestErrorFirst ==
    << [catches |-> "RequestError", status |-> 502,
        prefix |-> "Service unavailable: ", with_cause |-> TRUE],
       [catches |-> "TimeoutException", status |-> 504,
        prefix |-> "Service timeout", with_cause |-> FALSE],
       [catches |-> "Exception", status |-> 500,
        prefix |-> "Internal error: ", with_cause |-> TRUE] >>

\* Lines 211-225: the except clauses, in their order.
EXCEPT_CLAUSES ==
    << [catches |-> "TimeoutException", status |-> 504,
        prefix |-> "Service timeout", with_cause |-> FALSE],
       [catches |-> "RequestError", status |-> 502,
        prefix |-> "Service unavailable: ", with_cause |-> TRUE],
       [catches |-> "Exception", status |-> 500,
        prefix |-> "Internal error: ", with_cause |-> TRUE] >>

ClauseIndex(cls) ==
    CHOOSE i \in 1..Len(EXCEPT_CLAUSES) :
        /\ IsInstance(cls, EXCEPT_CLAUSES[i].catches)
        /\ \A j \in 1..(i - 1) : ~IsInstance(cls, EXCEPT_CLAUSES[j].catches)

\* The answer the first matching except clause gives for exception e.
HandleException(e) ==
    LET c == EXCEPT_CLAUSES[ClauseIndex(e.cls)] IN
    Detail(c.status, IF c.with_cause THEN c.prefix \o e.msg ELSE c.prefix)

\* Lines 205-209 with the except clauses around them: the downstream
\* answer relayed, or the failure of response.json() mapped.
Relay(status, content_type, text) ==
    IF IsJsonContentType(content_type)
    THEN IF IsJson(text)
         THEN [status_code |-> status, content |-> [json |-> JsonValue[text]]]
         ELSE HandleException([cls |-> "JSONDecodeError", msg |-> "Expecting value"])
    ELSE [status_code |-> status, content |-> [text |-> text]]

\* ---------------------------------------------------------------- inputs
FirstSegments == {"auth", "payment", "financing", "insurance", "health", "catalog"}
SecondSegments == {"health", "stats", "payments"}

RECURSIVE Slashes(_)
Slashes(n) == IF n = 0 THEN <<>> ELSE <<SEP>> \o Slashes(n - 1)

RECURSIVE Trail(_)
Trail(n) == IF n = 0 THEN <<>> ELSE <<SEP, "1">> \o Trail(n - 1)

PathBodies ==
    {<<>>}
    \cup {<<s>> : s \in FirstSegments}
    \cup {<<s, SEP>> : s \in FirstSegments}
    \cup {<<s, SEP, t>> \o Trail(n) :
             s \in FirstSegments, t \in SecondSegments, n \in 0..MaxTrailingSegments}

\* Values of the path parameter of the route "/{path:path}".
RawPaths == {Slashes(k) \o b : k \in 0..MaxLeadingSlashes, b \in PathBodies}

Tokens == {"tok_client", "tok_manager", "tok_admin", "tok_expired"}

AuthorizationValues ==
    {<<"">>, <<"Basic", "tok_admin">>, <<"Bearer">>, <<"Bearer", "">>}
    \cup {<<"Bearer", t>> : t \in Tokens}

HeaderValues ==
    [host          |-> {<<"gateway:8000">>},
     authorization |-> AuthorizationValues,
     accept        |-> {<<"*/*">>}]

InboundHeaders ==
    UNION {{h \in [D -> UNION {HeaderValues[k] : k \in D}] :
               \A k \in D : h[k] \in HeaderValues[k]} :
           D \in SUBSET DOMAIN HeaderValues}

Bodies == {"", "amount=100"}

DownstreamStatuses == {200, 404, 503}
ContentTypes ==
    {<<>>, <<"application/json">>, <<"application/json", "; charset=utf-8">>}
DownstreamTexts == {"{\"ok\": true}", "Not Found"}

RaisedExceptions ==
    {[cls |-> "ConnectTimeout",      msg |-> "timed out"],
     [cls |-> "ReadTimeout",         msg |-> "timed out"],
     [cls |-> "ConnectError",        msg |-> "All connection attempts failed"],
     [cls |-> "RemoteProtocolError", msg |-> "Server disconnected"],
     [cls |-> "TooManyRedirects",    msg |-> "Exceeded maximum allowed redirects"],
     [cls |-> "InvalidURL",          msg |-> "Invalid port"]}

\* --------------------------------------------------------------- actions
HEALTH_REPLY ==
    [status_code |-> 200,
     content |-> [status |-> "healthy", service |-> "api-gateway"]]

Handle_NoHealthShortCircuit(method, raw_path, headers, body) ==
    LET np == LStrip(raw_path)
        a == Authenticate(np, headers)
        r == Route(np, a.user_data)
        blank == [path |-> np, user_data |-> None, service_url |-> "",
                  forward_path |-> <<>>, calls |-> <<>>, response |-> None]
    IN  IF a.deny # None
        THEN [blank EXCEPT !.response = a.deny]
        ELSE IF r.deny # None
        THEN [blank EXCEPT !.user_data = a.user_data,
                           !.service_url = r.service_url,
                           !.forward_path = r.forward_path,
                           !.response = r.deny]
        ELSE [blank EXCEPT !.user_data = a.user_data,
                           !.service_url = r.service_url,
                           !.forward_path = r.forward_path,
                           !.calls = << [method  |-> method,
                                         url     |-> Url(r.service_url, r.forward_path),
                                         headers |-> ForwardHeaders(headers),
                                         content |-> body] >>]

\* Lines 102-203: gateway_handler up to the await of client.request.  The
\* result holds the locals and either the answer or the downstream call.
Handle(method, raw_path, headers, body) ==
    LET np == LStrip(raw_path)
        a == Authenticate(np, headers)
        r == Route(np, a.user_data)
        blank == [path |-> np, user_data |-> None, service_url |-> "",
                  forward_path |-> <<>>, calls |-> <<>>, response |-> None]
    IN  IF np = <<"health">>
        THEN [blank EXCEPT !.response = HEALTH_REPLY]
        ELSE IF a.deny # None
        THEN [blank EXCEPT !.response = a.deny]
        ELSE IF r.deny # None
        THEN [blank EXCEPT !.user_data = a.user_data,
                           !.service_url = r.service_url,
                           !.forward_path = r.forward_path,
                           !.response = r.deny]
        ELSE [blank EXCEPT !.user_data = a.user_data,
                           !.service_url = r.service_url,
                           !.forward_path = r.forward_path,
                           !.calls = << [method  |-> method,
                                         url     |-> Url(r.service_url, r.forward_path),
                                         headers |-> ForwardHeaders(headers),
                                         content |-> body] >>]

\* An inbound request reaches gateway_handler.  GET / is taken by read_root,
\* which is registered first (line 47).
GatewayHandler ==
    /\ pc = "idle"
    /\ \E method \in METHODS, raw_path \in RawPaths, headers \in InboundHeaders,
          body \in Bodies :
        /\ ~(method = "GET" /\ raw_path = <<>>)
        /\ LET res == Handle(method, raw_path, headers, body) IN
            /\ request' = [method |-> method, path |-> raw_path,
                           headers |-> headers, body |-> body]
            /\ path' = res.path
            /\ user_data' = res.user_data
            /\ service_url' = res.service_url
            /\ forward_path' = res.forward_path
            /\ downstream_calls' = res.calls
            /\ response' = res.response
            /\ downstream_result' = None
            /\ pc' = IF res.response = None THEN "forwarding" ELSE "done"
    /\ UNCHANGED <<rootVars, busVars, subVars, crudVars, thrVars, apiVars>>

\* client.request returns the downstream answer (lines 197-209).
ClientResponds ==
    /\ pc = "forwarding"
    /\ \E status \in DownstreamStatuses, content_type \in ContentTypes,
          text \in DownstreamTexts :
        /\ downstream_result' = [status_code |-> status,
                                 content_type |-> content_type, text |-> text]
        /\ response' = Relay(status, content_type, text)
        /\ pc' = "done"
        /\ UNCHANGED <<request, path, user_data, service_url, forward_path,
                       downstream_calls>>
    /\ UNCHANGED <<rootVars, busVars, subVars, crudVars, thrVars, apiVars>>

ClientRaises_Retries ==
    /\ pc = "forwarding"
    /\ \E e \in RaisedExceptions :
        /\ downstream_result' = e
        /\ IF Len(downstream_calls) = 1
           THEN /\ downstream_calls' = downstream_calls \o downstream_calls
                /\ response' = None
                /\ pc' = "forwarding"
           ELSE /\ downstream_calls' = downstream_calls
                /\ response' = HandleException(e)
                /\ pc' = "done"
        /\ UNCHANGED <<request, path, user_data, service_url, forward_path>>
    /\ UNCHANGED <<rootVars, busVars, subVars, crudVars, thrVars, apiVars>>

\* client.request raises (lines 211-225).
ClientRaises ==
    /\ pc = "forwarding"
    /\ \E e \in RaisedExceptions :
        /\ downstream_result' = e
        /\ response' = HandleException(e)
        /\ pc' = "done"
        /\ UNCHANGED <<request, path, user_data, service_url, forward_path,
                       downstream_calls>>
    /\ UNCHANGED <<rootVars, busVars, subVars, crudVars, thrVars, apiVars>>

\* The answer is returned and the request context is dropped.
ReturnResponse ==
    /\ pc = "done"
    /\ pc' = "idle"
    /\ request' = None
    /\ path' = <<>>
    /\ user_data' = None
    /\ service_url' = ""
    /\ forward_path' = <<>>
    /\ downstream_calls' = <<>>
    /\ response' = None
    /\ downstream_result' = None
    /\ UNCHANGED <<rootVars, busVars, subVars, crudVars, thrVars, apiVars>>

\* ------------------------------------------------------ read_root (GET /)
\* Lines 57-62: the services probed, in the order of the for loop.
SERVICES ==
    << [name |-> "auth",      url |-> AUTH_SERVICE_URL],
       [name |-> "payment",   url |-> PAYMENT_SERVICE_URL],
       [name |-> "financing", url |-> FINANCING_SERVICE_URL],
       [name |-> "insurance", url |-> INSURANCE_SERVICE_URL] >>

ProbeStatuses == {200, 503}
ProbeExceptions ==
    {[cls |-> "ConnectError",   msg |-> "All connection attempts failed"],
     [cls |-> "ConnectTimeout", msg |-> "timed out"]}

ProbeSlot_IgnoresStatus(outcome) ==
    IF "cls" \in DOMAIN outcome
    THEN [error |-> outcome.msg]
    ELSE IF IsJson(outcome.text)
         THEN JsonValue[outcome.text]
         ELSE [error |-> "Expecting value"]

\* Lines 66-73: the slot one probe leaves in stats["services"].  outcome is
\* the answer of client.get or the exception it raised; response.json()
\* raises inside the same try when the body is not JSON text.
ProbeSlot(outcome) ==
    IF "cls" \in DOMAIN outcome
    THEN [error |-> outcome.msg]
    ELSE IF outcome.status_code = 200
         THEN IF IsJson(outcome.text)
              THEN JsonValue[outcome.text]
              ELSE [error |-> "Expecting value"]
         ELSE [error |-> "HTTP " \o ToString(outcome.status_code)]

\* GET / reaches read_root (lines 47-67): stats is built and the loop
\* issues the first probe and awaits it.
ReadRoot ==
    /\ root_pc = "idle"
    /\ pc = "idle"
    /\ stats' = [message |-> "API Gateway is running", version |-> "1.0.0",
                 services |-> <<>>]
    /\ probes_started' = <<SERVICES[1].name>>
    /\ probe_outcome' = <<>>
    /\ root_response' = None
    /\ root_pc' = "probing"
    /\ UNCHANGED <<gwVars, busVars, subVars, crudVars, thrVars, apiVars>>

\* Lines 67-75: the awaited probe ends with outcome; its slot is stored and
\* the loop issues the next probe, or read_root returns stats after the last.
ProbeEnds(outcome) ==
    LET i == Len(probes_started)
        name == SERVICES[i].name
        filled == [stats EXCEPT
                      !.services = (name :> ProbeSlot(outcome)) @@ stats.services]
    IN  /\ root_pc = "probing"
        /\ probe_outcome' = (name :> outcome) @@ probe_outcome
        /\ stats' = filled
        /\ IF i < Len(SERVICES)
           THEN /\ probes_started' = Append(probes_started, SERVICES[i + 1].name)
                /\ root_pc' = "probing"
                /\ root_response' = None
           ELSE /\ probes_started' = probes_started
                /\ root_pc' = "done"
                /\ root_response' = [status_code |-> 200, content |-> filled]
        /\ UNCHANGED <<gwVars, busVars, subVars, crudVars, thrVars, apiVars>>

ProbeAnswers ==
    \E status \in ProbeStatuses, text \in DownstreamTexts :
        ProbeEnds([status_code |-> status, text |-> text])

ProbeRaises ==
    \E e \in ProbeExceptions : ProbeEnds(e)

\* The answer of GET / is returned.
RootReturn ==
    /\ root_pc = "done"
    /\ root_pc' = "idle"
    /\ probes_started' = <<>>
    /\ probe_outcome' = <<>>
    /\ stats' = None
    /\ root_response' = None
    /\ UNCHANGED <<gwVars, busVars, subVars, crudVars, thrVars, apiVars>>

\* ---------------------------------------------------------------------
\* shared/messaging.py: MessageBroker.publish_event
\* ---------------------------------------------------------------------

MaxClock == 1
MaxSent == 2

\* Values a Python dict can hold, each tagged with its type.  A dotted name
\* such as "payment.created" is the sequence of its segments.
Str(s) == [str |-> s]
Num(n) == [int |-> n]
Datetime(t) == [datetime |-> t]
Dict(d) == [dict |-> d]

\* json.dumps raises TypeError on a value that holds a datetime.
RECURSIVE JsonSafe(_)
JsonSafe(v) ==
    IF "dict" \in DOMAIN v
    THEN \A k \in DOMAIN v.dict : JsonSafe(v.dict[k])
    ELSE "datetime" \notin DOMAIN v

\* json.dumps / json.loads: the text of a JSON-safe value, and back.  A body
\* that is not JSON text does not parse.
Dumps(v) == [json |-> v]
IsJsonBody(body) == "json" \in DOMAIN body
Loads(body) == body.json

\* The exception classes publish_event can meet, each with its base class.
BusExceptionBase ==
    [AMQPConnectionError    |-> "AMQPError",
     StreamLostError        |-> "AMQPConnectionError",
     ChannelClosedByBroker  |-> "AMQPChannelError",
     ChannelWrongStateError |-> "AMQPChannelError",
     AMQPChannelError       |-> "AMQPError",
     AMQPError              |-> "Exception",
     TypeError              |-> "Exception",
     JSONDecodeError        |-> "Exception",
     HandlerError           |-> "Exception",
     Exception              |-> "Exception"]

RECURSIVE Catches(_, _)
Catches(clause, cls) ==
    IF cls = clause THEN TRUE
    ELSE IF BusExceptionBase[cls] = cls THEN FALSE
    ELSE Catches(clause, BusExceptionBase[cls])

PUBLISH_CATCHES_AMQPOnly == "AMQPError"

\* Line 42: except Exception
PUBLISH_CATCHES == "Exception"

\* Where a publish_event call can fail for reasons outside the program.
Faults == {"none", "connect", "declare_channel", "declare_stream",
           "publish_stream"}

\* datetime.utcnow().timestamp() joined to exchange and routing key with ".".
EventId(exchange, routing_key, t) == exchange \o routing_key \o <<t>>

\* datetime.utcnow().isoformat()
Isoformat(t) == Str(<<"iso", t>>)

Envelope_TypeIsExchange(exchange, routing_key, event_data, t1, t2) ==
    Dict([event_id   |-> Str(EventId(exchange, routing_key, t1)),
          event_type |-> Str(exchange),
          timestamp  |-> Isoformat(t2),
          payload    |-> event_data])

\* Lines 27-32: the dict publish_event builds around event_data.
Envelope(exchange, routing_key, event_data, t1, t2) ==
    Dict([event_id   |-> Str(EventId(exchange, routing_key, t1)),
          event_type |-> Str(routing_key),
          timestamp  |-> Isoformat(t2),
          payload    |-> event_data])

\* Lines 21-43: publish_event on a broker object [connection, channel, sent].
\* t1 and t2 are the two readings of utcnow.  The result holds the broker
\* object afterwards, the exception the except clause caught and the one
\* that left the function, None for none.
publish_event(broker, exchange, routing_key, event_data, fault, t1, t2) ==
    LET connecting == broker.connection # "open"
        connected ==
            IF connecting /\ fault # "connect"
            THEN [broker EXCEPT !.connection = "open", !.channel = "open"]
            ELSE broker
        event == Envelope(exchange, routing_key, event_data, t1, t2)
        message == [exchange    |-> exchange,
                    routing_key |-> routing_key,
                    body        |-> Dumps(event),
                    properties  |-> [delivery_mode |-> 2]]
        raised ==
            IF connecting /\ fault = "connect"
            THEN [cls |-> "AMQPConnectionError", at |-> "connect"]
            ELSE IF connected.channel # "open"
            THEN [cls |-> "ChannelWrongStateError", at |-> "exchange_declare"]
            ELSE IF fault = "declare_channel"
            THEN [cls |-> "ChannelClosedByBroker", at |-> "exchange_declare"]
            ELSE IF fault = "declare_stream"
            THEN [cls |-> "StreamLostError", at |-> "exchange_declare"]
            ELSE IF ~JsonSafe(event)
            THEN [cls |-> "TypeError", at |-> "json.dumps"]
            ELSE IF fault = "publish_stream"
            THEN [cls |-> "StreamLostError", at |-> "basic_publish"]
            ELSE None
        after ==
            IF raised = None
            THEN [connected EXCEPT !.sent = Append(@, message)]
            ELSE IF raised.cls = "ChannelClosedByBroker"
            THEN [connected EXCEPT !.channel = "closed"]
            ELSE IF raised.cls = "StreamLostError"
            THEN [connected EXCEPT !.connection = "closed",
                                   !.channel = "closed"]
            ELSE connected
        swallowed == raised # None /\ Catches(PUBLISH_CATCHES, raised.cls)
    IN  [broker     |-> after,
         caught     |-> IF swallowed THEN raised ELSE None,
         propagated |-> IF swallowed THEN None ELSE raised]

Broker == [connection |-> connection, channel |-> channel, sent |-> sent]

\* What last_publish records of a call.
PublishRecord(exchange, routing_key, event_data, fault, result) ==
    [exchange    |-> exchange,
     routing_key |-> routing_key,
     event_data  |-> event_data,
     fault       |-> fault,
     connection_before |-> connection,
     stale_before      |-> stale,
     caught      |-> result.caught,
     propagated  |-> result.propagated,
     sent_before |-> sent]

EXCHANGE == <<"autosalon">>
RoutingKeys == {<<"payment", "created">>, <<"payment", "failed">>}
EventDatas ==
    {Dict([payment_id |-> Num(1), status |-> Str("pending")]),
     Dict([payment_id |-> Num(1), timestamp |-> Datetime(0)])}

Min(a, b) == IF a < b THEN a ELSE b

\* On a connection object whose socket the peer has dropped, connect() does
\* nothing (is_closed is False) and the first channel call, exchange_declare,
\* raises StreamLostError, whatever the broker would do otherwise.
Met(fault) ==
    IF stale /\ connection = "open" THEN "declare_stream" ELSE fault

\* A caller of message_broker.publish_event.
PublishEvent ==
    /\ Len(sent) < MaxSent
    /\ \E routing_key \in RoutingKeys, event_data \in EventDatas,
          fault \in Faults, t2 \in clock..Min(clock + 1, MaxClock) :
          LET result == publish_event(Broker, EXCHANGE, routing_key,
                                      event_data, Met(fault), clock, t2)
          IN  /\ connection' = result.broker.connection
              /\ channel' = result.broker.channel
              /\ sent' = result.broker.sent
              /\ clock' = t2
              /\ last_publish' = PublishRecord(EXCHANGE, routing_key,
                                               event_data, fault, result)
    /\ stale' = FALSE
    /\ UNCHANGED <<gwVars, rootVars, subVars, crudVars, thrVars, apiVars>>

\* Time passes between calls.
Tick ==
    /\ clock < MaxClock
    /\ clock' = clock + 1
    /\ UNCHANGED <<connection, channel, stale, sent, last_publish>>
    /\ UNCHANGED <<gwVars, rootVars, subVars, crudVars, thrVars, apiVars>>

\* The peer drops the socket (broker restart, network loss).  The thread
\* blocked in start_consuming reads the end of the stream: the connection
\* object becomes closed, start_consuming raises and the thread ends; the
\* broker deletes the exclusive queue.  Without a consuming thread nothing
\* reads the socket and the connection object may go on reporting open.
ConnectionDrops ==
    /\ connection = "open"
    /\ ~stale
    /\ \E noticed \in BOOLEAN :
          /\ subscription = "consuming" => noticed
          /\ IF noticed
             THEN /\ connection' = "closed"
                  /\ channel' = "closed"
                  /\ stale' = FALSE
             ELSE /\ stale' = TRUE
                  /\ UNCHANGED <<connection, channel>>
    /\ subscription' = IF subscription = "consuming" THEN "dead"
                       ELSE subscription
    /\ queue' = <<>>
    /\ UNCHANGED <<next_tag, settlements, handled>>
    /\ UNCHANGED <<clock, sent, last_publish>>
    /\ UNCHANGED <<gwVars, rootVars, crudVars, thrVars, apiVars>>

\* ---------------------------------------------------------------------
\* shared/messaging.py: MessageBroker.subscribe_to_events
\* ---------------------------------------------------------------------

MaxDeliveries == 3

\* Bodies the broker can deliver to the queue of the subscription: the
\* envelopes publish_event sends, and a message of another publisher whose
\* body is not JSON text.
DeliveredBodies ==
    {Dumps(Envelope(EXCHANGE, routing_key,
                    Dict([payment_id |-> Num(1), status |-> Str("pending")]),
                    0, 0)) : routing_key \in RoutingKeys}
        \cup {[raw |-> "not json"]}

\* What the callback passed to subscribe_to_events can do with an event.
CallbackOutcomes == {"returned", "raised"}

wrapper_AcksFirst(delivery, outcome) ==
    LET tag == delivery.delivery_tag
        ack == [op |-> "basic_ack", delivery_tag |-> tag, requeue |-> FALSE]
        nack == [op |-> "basic_nack", delivery_tag |-> tag, requeue |-> FALSE]
    IN  IF ~IsJsonBody(delivery.body)
        THEN [callback |-> "not_called", calls |-> <<nack>>]
        ELSE IF outcome = "raised"
        THEN [callback |-> "raised", calls |-> <<ack, nack>>]
        ELSE [callback |-> "returned", calls |-> <<ack>>]

wrapper_Requeues(delivery, outcome) ==
    LET tag == delivery.delivery_tag
        ack == [op |-> "basic_ack", delivery_tag |-> tag, requeue |-> FALSE]
        nack == [op |-> "basic_nack", delivery_tag |-> tag, requeue |-> TRUE]
    IN  IF ~IsJsonBody(delivery.body)
        THEN [callback |-> "not_called", calls |-> <<nack>>]
        ELSE IF outcome = "raised"
        THEN [callback |-> "raised", calls |-> <<nack>>]
        ELSE [callback |-> "returned", calls |-> <<ack>>]

\* Lines 63-70: wrapper(ch, method, properties, body).  The result holds
\* what became of the callback and the calls made on the channel.
wrapper(delivery, outcome) ==
    LET tag == delivery.delivery_tag
        ack == [op |-> "basic_ack", delivery_tag |-> tag, requeue |-> FALSE]
        nack == [op |-> "basic_nack", delivery_tag |-> tag, requeue |-> FALSE]
    IN  IF ~IsJsonBody(delivery.body)
        THEN [callback |-> "not_called", calls |-> <<nack>>]
        ELSE IF outcome = "raised"
        THEN [callback |-> "raised", calls |-> <<nack>>]
        ELSE [callback |-> "returned", calls |-> <<ack>>]

\* Lines 45-83: subscribe_to_events.  A failure to connect is printed and
\* no consumer is started.
SubscribeToEvents ==
    /\ subscription = "none"
    /\ \E fault \in {"none", "connect"} :
          IF fault = "connect" /\ connection # "open"
          THEN UNCHANGED <<connection, channel, subscription>>
          ELSE IF stale /\ connection = "open"
          THEN /\ connection' = "closed"
               /\ channel' = "closed"
               /\ UNCHANGED subscription
          ELSE /\ connection' = "open"
               /\ channel' = IF connection = "open" THEN channel ELSE "open"
               /\ subscription' = IF channel' = "open" THEN "consuming"
                                  ELSE "none"
    /\ stale' = FALSE
    /\ UNCHANGED <<queue, next_tag, settlements, handled>>
    /\ UNCHANGED <<clock, sent, last_publish>>
    /\ UNCHANGED <<gwVars, rootVars, crudVars, thrVars, apiVars>>

\* The broker routes a message that matches a binding to the queue.
BrokerDelivers ==
    /\ subscription = "consuming"
    /\ next_tag <= MaxDeliveries
    /\ \E body \in DeliveredBodies :
          queue' = Append(queue, [delivery_tag |-> next_tag, body |-> body])
    /\ next_tag' = next_tag + 1
    /\ UNCHANGED <<subscription, settlements, handled>>
    /\ UNCHANGED busVars
    /\ UNCHANGED <<gwVars, rootVars, crudVars, thrVars, apiVars>>

\* What the broker does with a settled message: a basic_nack with requeue
\* puts it back on the queue, every other settlement removes it.
AfterSettlement(q, delivery, calls) ==
    IF \E i \in 1..Len(calls) :
           calls[i].op = "basic_nack" /\ calls[i].requeue
    THEN Append(Tail(q), delivery)
    ELSE Tail(q)

\* The consuming thread (lines 75-80) calls wrapper with the next message.
OnMessage ==
    /\ subscription = "consuming"
    /\ queue # <<>>
    /\ \E outcome \in CallbackOutcomes :
          LET delivery == Head(queue)
              done == wrapper(delivery, outcome)
          IN  /\ settlements' = settlements \o done.calls
              /\ handled' = Append(handled,
                                   [delivery_tag |-> delivery.delivery_tag,
                                    body |-> delivery.body,
                                    callback |-> done.callback])
              /\ queue' = AfterSettlement(queue, delivery, done.calls)
    /\ UNCHANGED <<subscription, next_tag>>
    /\ UNCHANGED busVars
    /\ UNCHANGED <<gwVars, rootVars, crudVars, thrVars, apiVars>>

\* ---------------------------------------------------------------------
\* payment-service/crud.py and financing-service/crud.py: the operations
\* that commit a record change and then publish an event
\* ---------------------------------------------------------------------

MaxPayments == 1
MaxPaymentLogs == 3
MaxApplications == 1

UserIds == {1, 2}
TermMonths == {2}

Db == [payments |-> payments, payment_logs |-> payment_logs,
       applications |-> applications, schedules |-> schedules]

\* PaymentEvent(...).dict() / FinancingEvent(...).dict(): the timestamp
\* field is a datetime.
EventDict(event_id, event_type, timestamp, payload) ==
    Dict([event_id   |-> Str(event_id),
          event_type |-> Str(event_type),
          timestamp  |-> Datetime(timestamp),
          payload    |-> Dict(payload)])

\* What an operation returns when it finds nothing to do: None, with the
\* database and the broker object as they were.
ReturnNone(db, broker) ==
    [db |-> db, broker |-> broker, publish |-> None, result |-> None,
     new_status |-> None, effects |-> <<"return">>]

PublishAndReturn_NoneOnPublishError(db, broker, event_type, event, record, effects, fault, now) ==
    LET pub == publish_event(broker, EXCHANGE, event_type, event, fault,
                             now, now)
    IN  [db         |-> db,
         broker     |-> pub.broker,
         publish    |-> PublishRecord(EXCHANGE, event_type, event, fault, pub),
         result     |-> IF pub.propagated # None
                        THEN [raised |-> pub.propagated]
                        ELSE IF pub.caught # None THEN None ELSE record,
         new_status |-> record.status,
         effects    |-> effects \o <<"publish_event", "return">>]

\* The end of every publishing operation: with the change committed (db),
\* message_broker.publish_event(...) is called and the record is returned.
\* An exception leaving publish_event would leave the operation too.
PublishAndReturn(db, broker, event_type, event, record, effects, fault, now) ==
    LET pub == publish_event(broker, EXCHANGE, event_type, event, fault,
                             now, now)
    IN  [db         |-> db,
         broker     |-> pub.broker,
         publish    |-> PublishRecord(EXCHANGE, event_type, event, fault, pub),
         result     |-> IF pub.propagated # None
                        THEN [raised |-> pub.propagated]
                        ELSE record,
         new_status |-> record.status,
         effects    |-> effects \o <<"publish_event", "return">>]

\* payment-service/crud.py lines 129-140: _log_payment_action
LogEntry(payment_id, action, old_status, new_status) ==
    [payment_id |-> payment_id, action |-> action,
     old_status |-> old_status, new_status |-> new_status]

PaymentPayload(payment) ==
    [payment_id |-> Num(payment.id), order_id |-> Num(payment.order_id),
     user_id |-> Num(payment.user_id), amount |-> Num(payment.amount),
     status |-> Str(payment.status)]

\* payment-service/crud.py lines 10-44
create_payment(db, broker, order_id, user_id, amount, fault, now) ==
    LET id == Len(db.payments) + 1
        payment == [id |-> id, order_id |-> order_id, user_id |-> user_id,
                    amount |-> amount, status |-> "pending"]
        committed ==
            [db EXCEPT !.payments = Append(@, payment),
                       !.payment_logs =
                           Append(@, LogEntry(id, "created", "", "pending"))]
        event == EventDict(<<"payment", id>>, <<"payment", "created">>, now,
                           PaymentPayload(payment))
    IN  PublishAndReturn(committed, broker, <<"payment", "created">>, event,
                         payment, <<"commit", "commit">>, fault, now)

\* payment-service/crud.py lines 62-94
process_payment(db, broker, payment_id, success, fault, now) ==
    IF payment_id \notin DOMAIN db.payments
    THEN ReturnNone(db, broker)
    ELSE
    LET old_status == db.payments[payment_id].status
        new_status == IF success THEN "completed" ELSE "failed"
        payment == [db.payments[payment_id] EXCEPT !.status = new_status]
        event_type == IF success THEN <<"payment", "succeeded">>
                      ELSE <<"payment", "failed">>
        committed ==
            [db EXCEPT !.payments[payment_id] = payment,
                       !.payment_logs =
                           Append(@, LogEntry(payment_id, "processed",
                                              old_status, new_status))]
        event == EventDict(<<"payment", payment_id>> \o event_type,
                           event_type, now, PaymentPayload(payment))
    IN  PublishAndReturn(committed, broker, event_type, event, payment,
                         <<"commit", "commit">>, fault, now)

ApplicationPayload(application) ==
    [application_id |-> Num(application.id),
     user_id |-> Num(application.user_id),
     order_id |-> Num(application.order_id),
     status |-> Str(application.status)]

\* financing-service/crud.py lines 23-76
create_application(db, broker, user_id, order_id, term_months, fault, now) ==
    LET id == Len(db.applications) + 1
        application == [id |-> id, user_id |-> user_id, order_id |-> order_id,
                        term_months |-> term_months, status |-> "draft",
                        approved_by |-> 0]
        committed == [db EXCEPT !.applications = Append(@, application)]
        event == EventDict(<<"financing", id>>, <<"financing", "created">>,
                           now, ApplicationPayload(application))
    IN  PublishAndReturn(committed, broker, <<"financing", "created">>,
                         event, application, <<"commit">>, fault, now)

submit_application_Resubmits(db, broker, application_id, fault, now) ==
    IF application_id \notin DOMAIN db.applications
    THEN ReturnNone(db, broker)
    ELSE
    LET application ==
            [db.applications[application_id] EXCEPT !.status = "submitted"]
        committed == [db EXCEPT !.applications[application_id] = application]
        event == EventDict(<<"financing", application_id, "submitted">>,
                           <<"financing", "submitted">>, now,
                           ApplicationPayload(application))
    IN  PublishAndReturn(committed, broker, <<"financing", "submitted">>,
                         event, application, <<"commit">>, fault, now)

\* financing-service/crud.py lines 79-104
submit_application(db, broker, application_id, fault, now) ==
    IF application_id \notin DOMAIN db.applications
       \/ db.applications[application_id].status # "draft"
    THEN ReturnNone(db, broker)
    ELSE
    LET application ==
            [db.applications[application_id] EXCEPT !.status = "submitted"]
        committed == [db EXCEPT !.applications[application_id] = application]
        event == EventDict(<<"financing", application_id, "submitted">>,
                           <<"financing", "submitted">>, now,
                           ApplicationPayload(application))
    IN  PublishAndReturn(committed, broker, <<"financing", "submitted">>,
                         event, application, <<"commit">>, fault, now)

\* financing-service/crud.py lines 194-216: _create_payment_schedule
RECURSIVE ScheduleEntries(_, _)
ScheduleEntries(application_id, months) ==
    IF months = 0 THEN <<>>
    ELSE Append(ScheduleEntries(application_id, months - 1),
                [application_id |-> application_id,
                 payment_number |-> months])

\* financing-service/crud.py lines 107-146
review_application(db, broker, application_id, approved, reviewer_id, fault, now) ==
    IF application_id \notin DOMAIN db.applications
       \/ db.applications[application_id].status # "submitted"
    THEN ReturnNone(db, broker)
    ELSE
    LET old == db.applications[application_id]
        application ==
            IF approved
            THEN [old EXCEPT !.status = "approved",
                             !.approved_by = reviewer_id]
            ELSE [old EXCEPT !.status = "rejected"]
        committed ==
            [db EXCEPT !.applications[application_id] = application,
                       !.schedules =
                           IF approved
                           THEN @ \o ScheduleEntries(application_id,
                                                     old.term_months)
                           ELSE @]
        event_type == IF approved THEN <<"financing", "approved">>
                      ELSE <<"financing", "rejected">>
        event == EventDict(<<"financing", application_id>> \o event_type,
                           event_type, now,
                           ApplicationPayload(application))
    IN  PublishAndReturn(committed, broker, event_type, event, application,
                         IF approved THEN <<"commit", "commit">>
                         ELSE <<"commit">>,
                         fault, now)

\* The state after a call of one of the operations above.
Call(op, table, id, done) ==
    /\ payments' = done.db.payments
    /\ payment_logs' = done.db.payment_logs
    /\ applications' = done.db.applications
    /\ schedules' = done.db.schedules
    /\ connection' = done.broker.connection
    /\ channel' = done.broker.channel
    /\ sent' = done.broker.sent
    /\ last_publish' = IF done.publish = None THEN last_publish
                       ELSE done.publish
    /\ stale' = FALSE
    /\ last_op' = [op |-> op, table |-> table, id |-> id,
                   new_status |-> done.new_status,
                   effects |-> done.effects,
                   publish |-> done.publish,
                   result |-> done.result]
    /\ UNCHANGED clock
    /\ UNCHANGED <<gwVars, rootVars, subVars, thrVars, apiVars>>

CreatePayment ==
    /\ Len(payments) < MaxPayments
    /\ Len(payment_logs) < MaxPaymentLogs
    /\ \E user_id \in UserIds, fault \in Faults :
          Call("create_payment", "payments", Len(payments) + 1,
               create_payment(Db, Broker, 1, user_id, 100, fault, clock))

ProcessPayment ==
    /\ Len(payment_logs) < MaxPaymentLogs
    /\ \E payment_id \in 1..MaxPayments, success \in BOOLEAN,
          fault \in Faults :
          Call("process_payment", "payments", payment_id,
               process_payment(Db, Broker, payment_id, success, fault, clock))

CreateApplication ==
    /\ Len(applications) < MaxApplications
    /\ \E user_id \in UserIds, term_months \in TermMonths, fault \in Faults :
          Call("create_application", "applications", Len(applications) + 1,
               create_application(Db, Broker, user_id, 1, term_months, fault,
                                  clock))

SubmitApplication ==
    \E application_id \in 1..MaxApplications, fault \in Faults :
        Call("submit_application", "applications", application_id,
             submit_application(Db, Broker, application_id, fault, clock))

ReviewApplication ==
    \E application_id \in 1..MaxApplications, approved \in BOOLEAN,
       reviewer_id \in UserIds, fault \in Faults :
        Call("review_application", "applications", application_id,
             review_application(Db, Broker, application_id, approved,
                                reviewer_id, fault, clock))

\* ---------------------------------------------------------------------
\* payment-service/main.py: the HTTP endpoints, called directly or through
\* the gateway
\* ---------------------------------------------------------------------

MaxRows == 2

OrderIds == {100}
Amounts == {0, 100}
QueriedOrderIds == {100, 101}
EndpointFaults == {"none", "connect"}

\* int(payload.get("sub"))
IntOf == ("7" :> 7) @@ ("8" :> 8) @@ ("42" :> 42)

\* main.py lines 44-56 (the same function in the three services).
get_current_user(headers) ==
    LET authorization == GetAuthorization(headers) IN
    IF NoBearer(authorization) THEN None
    ELSE LET payload == verify_token(BearerToken(authorization)) IN
         IF payload # None
         THEN [user_id |-> IntOf[payload.sub], email |-> payload.email,
               role |-> payload.role]
         ELSE None

\* raise HTTPException(status_code=..., detail=...): nothing was changed.
Rejected(db, broker, status, msg) ==
    [db |-> db, broker |-> broker, publish |-> None,
     response |-> Detail(status, msg), added_tasks |-> <<>>]

\* A dict or list returned by an endpoint.
Ok(db, broker, publish, content, added_tasks) ==
    [db |-> db, broker |-> broker, publish |-> publish,
     response |-> [status_code |-> 200, content |-> content],
     added_tasks |-> added_tasks]

\* An exception that leaves the endpoint is answered 500 by the server.
ServerError(done) ==
    [db |-> done.db, broker |-> done.broker, publish |-> done.publish,
     response |-> [status_code |-> 500, content |-> "Internal Server Error"],
     added_tasks |-> <<>>]

Raised(done) == done.result # None /\ "raised" \in DOMAIN done.result

\* main.py lines 58-93
create_payment_endpoint(db, broker, headers, params, fault, now) ==
    LET current_user == get_current_user(headers) IN
    IF current_user = None
    THEN Rejected(db, broker, 401, "Authentication required")
    ELSE IF params.amount <= 0
    THEN Rejected(db, broker, 400, "Amount must be positive")
    ELSE LET done == create_payment(db, broker, params.order_id,
                                    current_user.user_id, params.amount,
                                    fault, now)
         IN  IF Raised(done) THEN ServerError(done)
             ELSE Ok(done.db, done.broker, done.publish,
                     [payment_id |-> done.result.id,
                      status     |-> done.result.status,
                      amount     |-> done.result.amount,
                      message    |-> "Payment created and processing started"],
                     <<done.result.id>>)

\* main.py lines 95-101: success is always True.
process_payment_background(db, broker, payment_id, fault, now) ==
    process_payment(db, broker, payment_id, TRUE, fault, now)

\* crud.py lines 47-49
get_payment_by_id(db, payment_id) ==
    IF payment_id \in DOMAIN db.payments THEN db.payments[payment_id]
    ELSE None

get_payments_by_user_PendingOnly(db, user_id) ==
    SelectSeq(db.payments,
              LAMBDA p : p.user_id = user_id /\ p.status = "pending")

\* crud.py lines 52-54
get_payments_by_user(db, user_id) ==
    SelectSeq(db.payments, LAMBDA p : p.user_id = user_id)

\* crud.py lines 57-59, rows in the order of their ids
get_payments_by_order(db, order_id) ==
    SelectSeq(db.payments, LAMBDA p : p.order_id = order_id)

\* main.py lines 103-132
get_payment(db, broker, headers, payment_id) ==
    LET current_user == get_current_user(headers)
        payment == get_payment_by_id(db, payment_id)
    IN  IF current_user = None
        THEN Rejected(db, broker, 401, "Authentication required")
        ELSE IF payment = None
        THEN Rejected(db, broker, 404, "Payment not found")
        ELSE IF /\ payment.user_id # current_user.user_id
                /\ current_user.role # "admin"
        THEN Rejected(db, broker, 403, "Access denied")
        ELSE Ok(db, broker, None,
                [id |-> payment.id, order_id |-> payment.order_id,
                 amount |-> payment.amount, status |-> payment.status],
                <<>>)

\* main.py lines 134-151
get_user_payments(db, broker, headers) ==
    LET current_user == get_current_user(headers) IN
    IF current_user = None
    THEN Rejected(db, broker, 401, "Authentication required")
    ELSE LET found == get_payments_by_user(db, current_user.user_id) IN
         Ok(db, broker, None,
            [i \in DOMAIN found |->
                [id |-> found[i].id, order_id |-> found[i].order_id,
                 amount |-> found[i].amount, status |-> found[i].status]],
            <<>>)

\* main.py lines 153-176
get_order_payments(db, broker, headers, order_id) ==
    LET current_user == get_current_user(headers)
        found == get_payments_by_order(db, order_id)
    IN  IF current_user = None
        THEN Rejected(db, broker, 401, "Authentication required")
        ELSE IF /\ found # <<>>
                /\ found[1].user_id # current_user.user_id
                /\ current_user.role # "admin"
        THEN Rejected(db, broker, 403, "Access denied")
        ELSE Ok(db, broker, None,
                [i \in DOMAIN found |->
                    [id |-> found[i].id, amount |-> found[i].amount,
                     status |-> found[i].status]],
                <<>>)

\* crud.py lines 97-126
cancel_payment(db, broker, payment_id, fault, now) ==
    IF \/ payment_id \notin DOMAIN db.payments
       \/ db.payments[payment_id].status \in {"completed", "failed"}
    THEN ReturnNone(db, broker)
    ELSE
    LET old_status == db.payments[payment_id].status
        payment == [db.payments[payment_id] EXCEPT !.status = "cancelled"]
        committed ==
            [db EXCEPT !.payments[payment_id] = payment,
                       !.payment_logs =
                           Append(@, LogEntry(payment_id, "cancelled",
                                              old_status, "cancelled"))]
        event == EventDict(<<"payment", payment_id, "cancelled">>,
                           <<"payment", "cancelled">>, now,
                           PaymentPayload(payment))
    IN  PublishAndReturn(committed, broker, <<"payment", "cancelled">>, event,
                         payment, <<"commit", "commit">>, fault, now)

\* main.py lines 178-199
cancel_payment_endpoint(db, broker, headers, payment_id, fault, now) ==
    LET current_user == get_current_user(headers)
        payment == get_payment_by_id(db, payment_id)
    IN  IF current_user = None
        THEN Rejected(db, broker, 401, "Authentication required")
        ELSE IF payment = None
        THEN Rejected(db, broker, 404, "Payment not found")
        ELSE IF /\ payment.user_id # current_user.user_id
                /\ current_user.role # "admin"
        THEN Rejected(db, broker, 403, "Access denied")
        ELSE LET done == cancel_payment(db, broker, payment_id, fault, now)
             IN  IF done.result = None
                 THEN Rejected(db, broker, 400, "Payment cannot be cancelled")
                 ELSE IF Raised(done) THEN ServerError(done)
                 ELSE Ok(done.db, done.broker, done.publish,
                         [message |-> "Payment cancelled successfully",
                          status  |-> done.result.status],
                         <<>>)

\* Headers of a request made to a service directly, and of one made to the
\* gateway.
ServiceHeaders == {h \in InboundHeaders : DOMAIN h \subseteq {"authorization"}}
GatewayHeaders ==
    {h \in InboundHeaders : DOMAIN h \subseteq {"authorization", "host"}
                            /\ "host" \in DOMAIN h}

\* The rows a call found, kept to compare with what it left.
Tables == [payments |-> payments, payment_logs |-> payment_logs,
           policies |-> policies, sent |-> sent]

\* The state after an endpoint has answered a request made to the service.
Served(op, via, headers, args, remaining, out) ==
    /\ payments' = out.db.payments
    /\ payment_logs' = out.db.payment_logs
    /\ connection' = out.broker.connection
    /\ channel' = out.broker.channel
    /\ sent' = out.broker.sent
    /\ last_publish' = IF out.publish = None THEN last_publish
                       ELSE out.publish
    /\ stale' = FALSE
    /\ tasks' = remaining \o out.added_tasks
    /\ last_call' = [op |-> op, via |-> via,
                     current_user |-> get_current_user(headers),
                     args |-> args, before |-> Tables,
                     response |-> out.response]
    /\ UNCHANGED <<applications, schedules, last_op, clock, policies, users,
                   insurance_claims, reviews>>
    /\ UNCHANGED <<gwVars, rootVars, subVars, thrVars>>

\* api-gateway-service/main.py lines 205-209 for a service that answers
\* with a JSON body: status and body are handed on.
RelayAnswer(out) ==
    [out EXCEPT !.response =
        [status_code |-> out.response.status_code,
         content |-> [json |-> Loads(Dumps(out.response.content))]]]

\* The gateway denies the request itself: the service is not called.
Denied(db, broker, deny) ==
    [db |-> db, broker |-> broker, publish |-> None, response |-> deny,
     added_tasks |-> <<>>]

PaymentsPath == <<"payment", SEP, "payments">>

CreatePaymentCalled ==
    /\ Len(payments) < MaxRows
    /\ Len(payment_logs) < MaxPaymentLogs
    /\ \E headers \in ServiceHeaders, order_id \in OrderIds,
          amount \in Amounts, fault \in EndpointFaults :
          LET params == [order_id |-> order_id, amount |-> amount] IN
          Served("create_payment", "direct", headers, params, tasks,
                 create_payment_endpoint(Db, Broker, headers, params, fault,
                                         clock))

\* POST /payment/payments sent to the gateway: gateway_handler forwards it
\* with the headers but host and with the query parameters (lines 193-203).
GatewayCreatePayment ==
    /\ Len(payments) < MaxRows
    /\ Len(payment_logs) < MaxPaymentLogs
    /\ \E headers \in GatewayHeaders, order_id \in OrderIds,
          amount \in Amounts, fault \in EndpointFaults :
          LET params == [order_id |-> order_id, amount |-> amount]
              res == Handle("POST", PaymentsPath, headers, "")
          IN  Served("create_payment", "gateway", headers, params, tasks,
                     IF res.response # None
                     THEN Denied(Db, Broker, res.response)
                     ELSE RelayAnswer(
                              create_payment_endpoint(
                                  Db, Broker, res.calls[1].headers, params,
                                  fault, clock)))

\* The background task added by create_payment runs.
ProcessPaymentBackground ==
    /\ tasks # <<>>
    /\ Len(payment_logs) < MaxPaymentLogs
    /\ \E fault \in EndpointFaults :
          LET done == process_payment_background(Db, Broker, Head(tasks),
                                                 fault, clock)
          IN  Served("process_payment_background", "task", <<>>,
                     [payment_id |-> Head(tasks)], Tail(tasks),
                     [db |-> done.db, broker |-> done.broker,
                      publish |-> done.publish, response |-> None,
                      added_tasks |-> <<>>])

GetPayment ==
    \E headers \in ServiceHeaders, payment_id \in 1..MaxRows :
        Served("get_payment", "direct", headers,
               [payment_id |-> payment_id], tasks,
               get_payment(Db, Broker, headers, payment_id))

GetUserPayments ==
    \E headers \in ServiceHeaders :
        Served("get_user_payments", "direct", headers, <<>>, tasks,
               get_user_payments(Db, Broker, headers))

\* GET /payment/payments sent to the gateway.
GatewayUserPayments ==
    \E headers \in GatewayHeaders :
        LET res == Handle("GET", PaymentsPath, headers, "") IN
        Served("get_user_payments", "gateway", headers, <<>>, tasks,
               IF res.response # None
               THEN Denied(Db, Broker, res.response)
               ELSE RelayAnswer(get_user_payments(Db, Broker,
                                                  res.calls[1].headers)))

GetOrderPayments ==
    \E headers \in ServiceHeaders, order_id \in QueriedOrderIds :
        Served("get_order_payments", "direct", headers,
               [order_id |-> order_id], tasks,
               get_order_payments(Db, Broker, headers, order_id))

CancelPayment ==
    /\ Len(payment_logs) < MaxPaymentLogs
    /\ \E headers \in ServiceHeaders, payment_id \in 1..MaxRows,
          fault \in EndpointFaults :
          Served("cancel_payment", "direct", headers,
                 [payment_id |-> payment_id], tasks,
                 cancel_payment_endpoint(Db, Broker, headers, payment_id,
                                         fault, clock))

\* ---------------------------------------------------------------------
\* insurance-service/main.py and crud.py: quotes, purchase and activation
\* ---------------------------------------------------------------------

CoverageAmounts == {0, 1000}

InsuranceDb == [policies |-> policies, insurance_claims |-> insurance_claims]

PolicyPayload(policy) ==
    [policy_id |-> Num(policy.id), user_id |-> Num(policy.user_id),
     order_id |-> Num(policy.order_id), status |-> Str(policy.status)]

\* crud.py lines 41-84: the quote is committed, no event is published.
create_policy_quote(db, broker, user_id, order_id, coverage_amount) ==
    LET id == Len(db.policies) + 1
        policy == [id |-> id, user_id |-> user_id, order_id |-> order_id,
                   coverage_amount |-> coverage_amount, status |-> "quoted",
                   is_paid |-> FALSE]
    IN  [db |-> [db EXCEPT !.policies = Append(@, policy)],
         broker |-> broker, publish |-> None, result |-> policy,
         new_status |-> "quoted", effects |-> <<"commit", "return">>]

\* crud.py lines 147-149
get_policy_by_id(db, policy_id) ==
    IF policy_id \in DOMAIN db.policies THEN db.policies[policy_id] ELSE None

\* crud.py lines 86-114
purchase_policy(db, broker, policy_id, fault, now) ==
    IF \/ policy_id \notin DOMAIN db.policies
       \/ db.policies[policy_id].status # "quoted"
    THEN ReturnNone(db, broker)
    ELSE
    LET policy == [db.policies[policy_id] EXCEPT !.status = "purchased"]
        committed == [db EXCEPT !.policies[policy_id] = policy]
        event == EventDict(<<"insurance", policy_id>>,
                           <<"insurance", "purchased">>, now,
                           PolicyPayload(policy))
    IN  PublishAndReturn(committed, broker, <<"insurance", "purchased">>,
                         event, policy, <<"commit">>, fault, now)

activate_policy_FromQuoted(db, broker, policy_id, fault, now) ==
    IF \/ policy_id \notin DOMAIN db.policies
       \/ db.policies[policy_id].status \notin {"quoted", "purchased"}
    THEN ReturnNone(db, broker)
    ELSE
    LET policy == [db.policies[policy_id] EXCEPT !.status = "active",
                                                 !.is_paid = TRUE]
        committed == [db EXCEPT !.policies[policy_id] = policy]
        event == EventDict(<<"insurance", policy_id, "activated">>,
                           <<"insurance", "activated">>, now,
                           PolicyPayload(policy))
    IN  PublishAndReturn(committed, broker, <<"insurance", "activated">>,
                         event, policy, <<"commit">>, fault, now)

\* crud.py lines 116-144
activate_policy(db, broker, policy_id, fault, now) ==
    IF \/ policy_id \notin DOMAIN db.policies
       \/ db.policies[policy_id].status # "purchased"
    THEN ReturnNone(db, broker)
    ELSE
    LET policy == [db.policies[policy_id] EXCEPT !.status = "active",
                                                 !.is_paid = TRUE]
        committed == [db EXCEPT !.policies[policy_id] = policy]
        event == EventDict(<<"insurance", policy_id, "activated">>,
                           <<"insurance", "activated">>, now,
                           PolicyPayload(policy))
    IN  PublishAndReturn(committed, broker, <<"insurance", "activated">>,
                         event, policy, <<"commit">>, fault, now)

\* main.py lines 58-101
create_quote(db, broker, headers, params) ==
    LET current_user == get_current_user(headers) IN
    IF current_user = None
    THEN Rejected(db, broker, 401, "Authentication required")
    ELSE IF params.coverage_amount <= 0
    THEN Rejected(db, broker, 400, "Invalid coverage amount")
    ELSE LET done == create_policy_quote(db, broker, current_user.user_id,
                                         params.order_id,
                                         params.coverage_amount)
         IN  Ok(done.db, done.broker, done.publish,
                [policy_id |-> done.result.id,
                 coverage_amount |-> done.result.coverage_amount,
                 status |-> done.result.status],
                <<>>)

\* main.py lines 103-124
purchase_policy_endpoint(db, broker, headers, policy_id, fault, now) ==
    LET current_user == get_current_user(headers)
        policy == get_policy_by_id(db, policy_id)
    IN  IF current_user = None
        THEN Rejected(db, broker, 401, "Authentication required")
        ELSE IF policy = None
        THEN Rejected(db, broker, 404, "Policy not found")
        ELSE IF policy.user_id # current_user.user_id
        THEN Rejected(db, broker, 403, "Access denied")
        ELSE LET done == purchase_policy(db, broker, policy_id, fault, now)
             IN  IF done.result = None
                 THEN Rejected(db, broker, 400, "Cannot purchase policy")
                 ELSE IF Raised(done) THEN ServerError(done)
                 ELSE Ok(done.db, done.broker, done.publish,
                         [message |-> "Policy purchased successfully",
                          status  |-> done.result.status],
                         <<>>)

\* main.py lines 126-138: current_user is resolved and never looked at.
activate_policy_endpoint(db, broker, headers, policy_id, fault, now) ==
    LET current_user == get_current_user(headers)
        done == activate_policy(db, broker, policy_id, fault, now)
    IN  IF done.result = None
        THEN Rejected(db, broker, 400, "Cannot activate policy")
        ELSE IF Raised(done) THEN ServerError(done)
        ELSE Ok(done.db, done.broker, done.publish,
                [message |-> "Policy activated successfully",
                 status  |-> done.result.status],
                <<>>)

\* The state after an endpoint of the insurance service has answered.
ServedInsurance(op, headers, args, out) ==
    /\ policies' = out.db.policies
    /\ insurance_claims' = out.db.insurance_claims
    /\ connection' = out.broker.connection
    /\ channel' = out.broker.channel
    /\ sent' = out.broker.sent
    /\ last_publish' = IF out.publish = None THEN last_publish
                       ELSE out.publish
    /\ stale' = FALSE
    /\ last_call' = [op |-> op, via |-> "direct",
                     current_user |-> get_current_user(headers),
                     args |-> args, before |-> Tables,
                     response |-> out.response]
    /\ UNCHANGED <<crudVars, clock, tasks, users, reviews>>
    /\ UNCHANGED <<gwVars, rootVars, subVars, thrVars>>

CreateQuote ==
    /\ Len(policies) < MaxRows
    /\ \E headers \in ServiceHeaders, order_id \in OrderIds,
          coverage_amount \in CoverageAmounts :
          LET params == [order_id |-> order_id,
                         coverage_amount |-> coverage_amount] IN
          ServedInsurance("create_quote", headers, params,
                          create_quote(InsuranceDb, Broker, headers, params))

PurchasePolicy ==
    \E headers \in ServiceHeaders, policy_id \in 1..MaxRows,
       fault \in EndpointFaults :
        ServedInsurance("purchase_policy", headers,
                        [policy_id |-> policy_id],
                        purchase_policy_endpoint(InsuranceDb, Broker, headers,
                                                 policy_id, fault, clock))

ActivatePolicy ==
    \E headers \in ServiceHeaders, policy_id \in 1..MaxRows,
       fault \in EndpointFaults :
        ServedInsurance("activate_policy", headers,
                        [policy_id |-> policy_id],
                        activate_policy_endpoint(InsuranceDb, Broker, headers,
                                                 policy_id, fault, clock))

\* ---------------------------------------------------------------------
\* insurance-service/main.py and crud.py: claims
\* ---------------------------------------------------------------------

MaxClaims == 1
MaxPolicies == 1

ClaimedAmounts == {0, 500, 2000}
ApprovedAmounts == {0 - 1, 0, 500, 2000}

\* crud.py lines 161-204; models.py lines 71-76 give approved_amount and
\* paid_amount the default 0.0 and status the default "submitted".
create_claim(db, broker, policy_id, user_id, claimed_amount, fault, now) ==
    LET id == Len(db.insurance_claims) + 1
        claim == [id |-> id, policy_id |-> policy_id, user_id |-> user_id,
                  claim_number |-> <<"CLM", id>>,
                  claimed_amount |-> claimed_amount, approved_amount |-> 0,
                  paid_amount |-> 0, status |-> "submitted"]
        committed == [db EXCEPT !.insurance_claims = Append(@, claim)]
        event == EventDict(<<"claim", id>>,
                           <<"insurance", "claim", "submitted">>, now,
                           [claim_id |-> Num(id), policy_id |-> Num(policy_id),
                            user_id |-> Num(user_id),
                            claimed_amount |-> Num(claimed_amount),
                            status |-> Str("submitted")])
    IN  PublishAndReturn(committed, broker,
                         <<"insurance", "claim", "submitted">>, event, claim,
                         <<"commit">>, fault, now)

process_claim_Reprocesses(db, broker, claim_id, approved_amount, fault, now) ==
    IF claim_id \notin DOMAIN db.insurance_claims
    THEN ReturnNone(db, broker)
    ELSE
    LET approved == approved_amount > 0
        claim == IF approved
                 THEN [db.insurance_claims[claim_id] EXCEPT
                          !.approved_amount = approved_amount,
                          !.status = "approved",
                          !.paid_amount = approved_amount]
                 ELSE [db.insurance_claims[claim_id] EXCEPT
                          !.approved_amount = approved_amount,
                          !.status = "rejected"]
        committed == [db EXCEPT !.insurance_claims[claim_id] = claim]
        event_type == IF approved THEN <<"insurance", "claim", "approved">>
                      ELSE <<"insurance", "claim", "rejected">>
        event == EventDict(<<"claim", claim_id, "processed">>, event_type, now,
                           [claim_id |-> Num(claim.id),
                            policy_id |-> Num(claim.policy_id),
                            user_id |-> Num(claim.user_id),
                            approved_amount |-> Num(approved_amount),
                            status |-> Str(claim.status)])
    IN  PublishAndReturn(committed, broker, event_type, event, claim,
                         <<"commit">>, fault, now)

\* crud.py lines 206-250
process_claim(db, broker, claim_id, approved_amount, fault, now) ==
    IF \/ claim_id \notin DOMAIN db.insurance_claims
       \/ db.insurance_claims[claim_id].status # "submitted"
    THEN ReturnNone(db, broker)
    ELSE
    LET approved == approved_amount > 0
        claim == IF approved
                 THEN [db.insurance_claims[claim_id] EXCEPT
                          !.approved_amount = approved_amount,
                          !.status = "approved",
                          !.paid_amount = approved_amount]
                 ELSE [db.insurance_claims[claim_id] EXCEPT
                          !.approved_amount = approved_amount,
                          !.status = "rejected"]
        committed == [db EXCEPT !.insurance_claims[claim_id] = claim]
        event_type == IF approved THEN <<"insurance", "claim", "approved">>
                      ELSE <<"insurance", "claim", "rejected">>
        event == EventDict(<<"claim", claim_id, "processed">>, event_type, now,
                           [claim_id |-> Num(claim.id),
                            policy_id |-> Num(claim.policy_id),
                            user_id |-> Num(claim.user_id),
                            approved_amount |-> Num(approved_amount),
                            status |-> Str(claim.status)])
    IN  PublishAndReturn(committed, broker, event_type, event, claim,
                         <<"commit">>, fault, now)

\* main.py lines 222-264
create_claim_endpoint(db, broker, headers, params, fault, now) ==
    LET current_user == get_current_user(headers)
        policy == get_policy_by_id(db, params.policy_id)
    IN  IF current_user = None
        THEN Rejected(db, broker, 401, "Authentication required")
        ELSE IF policy = None \/ policy.user_id # current_user.user_id
        THEN Rejected(db, broker, 403, "Access denied")
        ELSE IF policy.status # "active"
        THEN Rejected(db, broker, 400, "Policy is not active")
        ELSE IF \/ params.claimed_amount <= 0
                \/ params.claimed_amount > policy.coverage_amount
        THEN Rejected(db, broker, 400, "Invalid claim amount")
        ELSE LET done == create_claim(db, broker, params.policy_id,
                                      current_user.user_id,
                                      params.claimed_amount, fault, now)
             IN  IF Raised(done) THEN ServerError(done)
                 ELSE Ok(done.db, done.broker, done.publish,
                         [claim_id |-> done.result.id,
                          claim_number |-> done.result.claim_number,
                          status |-> done.result.status,
                          message |-> "Claim submitted successfully"],
                         <<>>)

\* main.py lines 375-403
process_claim_endpoint(db, broker, headers, claim_id, approved_amount, fault, now) ==
    LET current_user == get_current_user(headers) IN
    IF current_user = None \/ current_user.role \notin {"manager", "admin"}
    THEN Rejected(db, broker, 403, "Admin access required")
    ELSE IF approved_amount < 0
    THEN Rejected(db, broker, 400, "Invalid approved amount")
    ELSE LET done == process_claim(db, broker, claim_id, approved_amount,
                                   fault, now)
         IN  IF done.result = None
             THEN Rejected(db, broker, 400, "Cannot process claim")
             ELSE IF Raised(done) THEN ServerError(done)
             ELSE Ok(done.db, done.broker, done.publish,
                     [message |-> IF approved_amount > 0
                                  THEN "Claim approved" ELSE "Claim rejected",
                      status  |-> done.result.status],
                     <<>>)

CreateClaim ==
    /\ Len(insurance_claims) < MaxClaims
    /\ \E headers \in ServiceHeaders, policy_id \in 1..MaxRows,
          claimed_amount \in ClaimedAmounts, fault \in EndpointFaults :
          LET params == [policy_id |-> policy_id,
                         claimed_amount |-> claimed_amount] IN
          ServedInsurance("create_claim", headers, params,
                          create_claim_endpoint(InsuranceDb, Broker, headers,
                                                params, fault, clock))

ProcessClaim ==
    \E headers \in ServiceHeaders, claim_id \in 1..(MaxClaims + 1),
       approved_amount \in ApprovedAmounts, fault \in EndpointFaults :
        ServedInsurance("process_claim", headers,
                        [claim_id |-> claim_id,
                         approved_amount |-> approved_amount],
                        process_claim_endpoint(InsuranceDb, Broker, headers,
                                               claim_id, approved_amount,
                                               fault, clock))

\* ---------------------------------------------------------------------
\* PaymentCRUD.cancel_payment and the InsuranceCRUD operations called as
\* functions, next to the operations of FinancingCRUD and PaymentCRUD above
\* ---------------------------------------------------------------------

MaxRecords == 2

\* The state after a call of an InsuranceCRUD operation.
CallInsurance(op, table, id, done) ==
    /\ policies' = done.db.policies
    /\ insurance_claims' = done.db.insurance_claims
    /\ connection' = done.broker.connection
    /\ channel' = done.broker.channel
    /\ sent' = done.broker.sent
    /\ last_publish' = IF done.publish = None THEN last_publish
                       ELSE done.publish
    /\ stale' = FALSE
    /\ last_op' = [op |-> op, table |-> table, id |-> id,
                   new_status |-> done.new_status,
                   effects |-> done.effects,
                   publish |-> done.publish,
                   result |-> done.result]
    /\ UNCHANGED <<payments, payment_logs, applications, schedules, clock>>
    /\ UNCHANGED <<tasks, last_call, users, reviews>>
    /\ UNCHANGED <<gwVars, rootVars, subVars, thrVars>>

CancelPaymentCrud ==
    /\ Len(payment_logs) < MaxPaymentLogs
    /\ \E payment_id \in 1..MaxPayments, fault \in EndpointFaults :
          Call("cancel_payment", "payments", payment_id,
               cancel_payment(Db, Broker, payment_id, fault, clock))

CreatePolicyQuoteCrud ==
    /\ Len(policies) < MaxRows
    /\ \E user_id \in UserIds :
          CallInsurance("create_policy_quote", "policies", Len(policies) + 1,
                        create_policy_quote(InsuranceDb, Broker, user_id, 1,
                                            1000))

PurchasePolicyCrud ==
    \E policy_id \in 1..MaxRows, fault \in EndpointFaults :
        CallInsurance("purchase_policy", "policies", policy_id,
                      purchase_policy(InsuranceDb, Broker, policy_id, fault,
                                      clock))

ActivatePolicyCrud ==
    \E policy_id \in 1..MaxRows, fault \in EndpointFaults :
        CallInsurance("activate_policy", "policies", policy_id,
                      activate_policy(InsuranceDb, Broker, policy_id, fault,
                                      clock))

CreateClaimCrud ==
    /\ Len(insurance_claims) < MaxClaims
    /\ \E policy_id \in DOMAIN policies, fault \in EndpointFaults :
          CallInsurance("create_claim", "insurance_claims",
                        Len(insurance_claims) + 1,
                        create_claim(InsuranceDb, Broker, policy_id,
                                     policies[policy_id].user_id, 500, fault,
                                     clock))

ProcessClaimCrud ==
    \E claim_id \in 1..MaxClaims, approved_amount \in ApprovedAmounts,
       fault \in EndpointFaults :
        CallInsurance("process_claim", "insurance_claims", claim_id,
                      process_claim(InsuranceDb, Broker, claim_id,
                                    approved_amount, fault, clock))

\* ---------------------------------------------------------------------
\* financing-service/main.py: create, submit and review of an application
\* ---------------------------------------------------------------------

VehiclePrices == {0, 1000}
RequestedTerms == {2, 12}

\* main.py lines 58-100
create_application_endpoint(db, broker, headers, params, fault, now) ==
    LET current_user == get_current_user(headers) IN
    IF current_user = None
    THEN Rejected(db, broker, 401, "Authentication required")
    ELSE IF \/ params.vehicle_price <= 0
            \/ params.term_months < 12
            \/ params.term_months > 84
    THEN Rejected(db, broker, 400, "Invalid financing parameters")
    ELSE IF \/ params.down_payment < 0
            \/ params.down_payment >= params.vehicle_price
    THEN Rejected(db, broker, 400, "Invalid down payment amount")
    ELSE LET done == create_application(db, broker, current_user.user_id,
                                        params.order_id, params.term_months,
                                        fault, now)
         IN  IF Raised(done) THEN ServerError(done)
             ELSE Ok(done.db, done.broker, done.publish,
                     [application_id |-> done.result.id,
                      status |-> done.result.status,
                      term_months |-> done.result.term_months],
                     <<>>)

\* main.py lines 102-123
submit_application_endpoint(db, broker, headers, application_id, fault, now) ==
    LET current_user == get_current_user(headers) IN
    IF current_user = None
    THEN Rejected(db, broker, 401, "Authentication required")
    ELSE IF application_id \notin DOMAIN db.applications
    THEN Rejected(db, broker, 404, "Application not found")
    ELSE IF db.applications[application_id].user_id # current_user.user_id
    THEN Rejected(db, broker, 403, "Access denied")
    ELSE LET done == submit_application(db, broker, application_id, fault, now)
         IN  IF done.result = None
             THEN Rejected(db, broker, 400, "Cannot submit application")
             ELSE IF Raised(done) THEN ServerError(done)
             ELSE Ok(done.db, done.broker, done.publish,
                     [message |-> "Application submitted for review",
                      status  |-> done.result.status],
                     <<>>)

review_application_endpoint_AnyCaller(db, broker, headers, application_id, approved, fault, now) ==
    LET current_user == get_current_user(headers) IN
    IF current_user = None
    THEN Rejected(db, broker, 403, "Admin access required")
    ELSE LET done == review_application(db, broker, application_id, approved,
                                        current_user.user_id, fault, now)
         IN  IF done.result = None
             THEN Rejected(db, broker, 400, "Cannot review application")
             ELSE IF Raised(done) THEN ServerError(done)
             ELSE Ok(done.db, done.broker, done.publish,
                     [message |-> IF approved THEN "Application approved"
                                  ELSE "Application rejected",
                      status  |-> done.result.status],
                     <<>>)

\* main.py lines 264-288
review_application_endpoint(db, broker, headers, application_id, approved, fault, now) ==
    LET current_user == get_current_user(headers) IN
    IF current_user = None \/ current_user.role \notin {"manager", "admin"}
    THEN Rejected(db, broker, 403, "Admin access required")
    ELSE LET done == review_application(db, broker, application_id, approved,
                                        current_user.user_id, fault, now)
         IN  IF done.result = None
             THEN Rejected(db, broker, 400, "Cannot review application")
             ELSE IF Raised(done) THEN ServerError(done)
             ELSE Ok(done.db, done.broker, done.publish,
                     [message |-> IF approved THEN "Application approved"
                                  ELSE "Application rejected",
                      status  |-> done.result.status],
                     <<>>)

\* The state after an endpoint of the financing service has answered.
ServedFinancing(op, headers, args, out) ==
    /\ applications' = out.db.applications
    /\ schedules' = out.db.schedules
    /\ connection' = out.broker.connection
    /\ channel' = out.broker.channel
    /\ sent' = out.broker.sent
    /\ last_publish' = IF out.publish = None THEN last_publish
                       ELSE out.publish
    /\ stale' = FALSE
    /\ last_call' = [op |-> op, via |-> "direct",
                     current_user |-> get_current_user(headers),
                     args |-> args, before |-> Tables,
                     response |-> out.response]
    /\ UNCHANGED <<payments, payment_logs, last_op, clock>>
    /\ UNCHANGED <<tasks, policies, insurance_claims, users, reviews>>
    /\ UNCHANGED <<gwVars, rootVars, subVars, thrVars>>

CreateApplicationCalled ==
    /\ Len(applications) < MaxApplications
    /\ \E headers \in ServiceHeaders, order_id \in OrderIds,
          vehicle_price \in VehiclePrices, term_months \in RequestedTerms,
          fault \in EndpointFaults :
          LET params == [order_id |-> order_id,
                         vehicle_price |-> vehicle_price,
                         down_payment |-> 0, term_months |-> term_months] IN
          ServedFinancing("create_application", headers, params,
                          create_application_endpoint(Db, Broker, headers,
                                                      params, fault, clock))

SubmitApplicationCalled ==
    \E headers \in ServiceHeaders, application_id \in 1..(MaxApplications + 1),
       fault \in EndpointFaults :
        ServedFinancing("submit_application", headers,
                        [application_id |-> application_id],
                        submit_application_endpoint(Db, Broker, headers,
                                                    application_id, fault,
                                                    clock))

ReviewApplicationCalled ==
    \E headers \in ServiceHeaders, application_id \in 1..(MaxApplications + 1),
       approved \in BOOLEAN, fault \in EndpointFaults :
        ServedFinancing("review_application", headers,
                        [application_id |-> application_id,
                         approved |-> approved],
                        review_application_endpoint(Db, Broker, headers,
                                                    application_id, approved,
                                                    fault, clock))

\* ---------------------------------------------------------------------
\* financing-service/crud.py: review_application called from two requests.
\* Each request has its own Session (shared/database.py get_db) and the def
\* endpoints run in a thread pool: the row a session has loaded (line 110)
\* is not locked, and the commit writes the attributes the call has changed
\* and inserts the schedule entries it has added.
\* ---------------------------------------------------------------------

Reviewers == {"r1", "r2"}

\* crud.py lines 110-112: the query, and the test made on its result later.
ReviewQueried(t) ==
    /\ reviews[t] = None
    /\ \E application_id \in 1..MaxApplications, approved \in BOOLEAN :
          reviews' = [reviews EXCEPT ![t] =
                         [application_id |-> application_id,
                          approved |-> approved,
                          loaded |-> IF application_id \in DOMAIN applications
                                     THEN applications[application_id]
                                     ELSE None]]
    /\ UNCHANGED <<tasks, policies, insurance_claims, last_call, users>>
    /\ UNCHANGED <<gwVars, rootVars, busVars, subVars, crudVars, thrVars>>

\* crud.py lines 111-146 on the row the session has loaded: the attributes
\* the call assigns are written to the row as it is in the table now.
ReviewCommitted(t) ==
    /\ reviews[t] # None
    /\ \E fault \in EndpointFaults :
          LET call == reviews[t]
              id == call.application_id
              session == IF call.loaded = None THEN Db
                         ELSE [Db EXCEPT !.applications[id] = call.loaded]
              done == IF call.loaded = None THEN ReturnNone(Db, Broker)
                      ELSE review_application(session, Broker, id,
                                              call.approved, 8, fault, clock)
              written == IF done.result = None THEN applications
                         ELSE [applications EXCEPT ![id] =
                                  [key \in DOMAIN @ |->
                                      IF done.db.applications[id][key]
                                             # call.loaded[key]
                                      THEN done.db.applications[id][key]
                                      ELSE @[key]]]
          IN  /\ applications' = written
              /\ schedules' = done.db.schedules
              /\ connection' = done.broker.connection
              /\ channel' = done.broker.channel
              /\ sent' = done.broker.sent
              /\ last_publish' = IF done.publish = None THEN last_publish
                                 ELSE done.publish
              /\ stale' = FALSE
              /\ last_op' = [op |-> "review_application",
                             table |-> "applications", id |-> id,
                             new_status |-> done.new_status,
                             effects |-> done.effects,
                             publish |-> done.publish,
                             result |-> done.result]
    /\ reviews' = [reviews EXCEPT ![t] = None]
    /\ UNCHANGED <<payments, payment_logs, clock>>
    /\ UNCHANGED <<tasks, policies, insurance_claims, last_call, users>>
    /\ UNCHANGED <<gwVars, rootVars, subVars, thrVars>>

\* ---------------------------------------------------------------------
\* auth-service/main.py and crud.py: PUT /users/{user_id}
\* ---------------------------------------------------------------------

\* The users the tokens were issued to (login_for_access_token writes the
\* id, email and role of the row into the token), and an id of no row.
Registered ==
    [id \in {7, 8, 42} |->
        [id |-> id,
         role |-> IF id = 7 THEN "client"
                  ELSE IF id = 8 THEN "manager" ELSE "admin",
         full_name |-> "A"]]
RequestedUserIds == {7, 8, 42, 9}

\* Bodies of PUT /users/{user_id}: user_data is an arbitrary dict.  A value
\* given for role is one the Enum column accepts.
UserDatas ==
    {[full_name |-> "B"], [nickname |-> "x"], [role |-> "client"],
     [role |-> "manager"], [role |-> "admin"],
     [full_name |-> "B", role |-> "admin"]}

\* crud.py lines 44-56: every key of user_data that names an attribute of
\* the row is assigned, role included.
update_user(db_users, user_id, body) ==
    IF user_id \notin DOMAIN db_users
    THEN [users |-> db_users, result |-> None]
    ELSE LET user == db_users[user_id]
             updated == [key \in DOMAIN user |->
                            IF key \in DOMAIN body THEN body[key]
                            ELSE user[key]]
         IN  [users |-> [db_users EXCEPT ![user_id] = updated],
              result |-> updated]

\* main.py lines 129-147
update_user_endpoint(db_users, user_id, body, token) ==
    LET payload == verify_token(token) IN
    IF payload = None
    THEN [users |-> db_users, response |-> Detail(401, "Invalid token")]
    ELSE
    LET current_user_id == IntOf[payload.sub]
        current_user_role == payload.role
    IN  IF /\ current_user_id # user_id
           /\ current_user_role \notin {"admin", "manager"}
        THEN [users |-> db_users,
              response |-> Detail(403, "Not enough permissions")]
        ELSE LET done == update_user(db_users, user_id, body) IN
             IF done.result = None
             THEN [users |-> db_users,
                   response |-> Detail(404, "User not found")]
             ELSE [users |-> done.users,
                   response |-> [status_code |-> 200,
                                 content |-> done.result]]

UpdateUser ==
    /\ \E token \in Tokens, user_id \in RequestedUserIds,
          body \in UserDatas :
          LET out == update_user_endpoint(users, user_id, body, token)
              payload == verify_token(token)
          IN  /\ users' = out.users
              /\ last_call' = [op |-> "update_user", via |-> "direct",
                               current_user |->
                                   IF payload = None THEN None
                                   ELSE [user_id |-> IntOf[payload.sub],
                                         email |-> payload.email,
                                         role |-> payload.role],
                               args |-> [user_id |-> user_id,
                                         user_data |-> body],
                               before |-> users,
                               response |-> out.response]
    /\ UNCHANGED <<tasks, policies, insurance_claims, reviews>>
    /\ UNCHANGED <<gwVars, rootVars, busVars, subVars, crudVars, thrVars>>

\* ---------------------------------------------------------------------
\* shared/messaging.py: the global message_broker used by several threads.
\* FastAPI runs the def endpoints in a thread pool, so publish_event is
\* entered by several threads; every subscribe_to_events call starts one
\* more thread that runs start_consuming on the one shared channel.  The
\* class holds no lock, so the steps of the threads interleave freely.
\* ---------------------------------------------------------------------

MaxArrivals == 2

Publishers == {"p1", "p2"}
Consumers == {"c1", "c2"}
Threads == Publishers \cup Consumers

\* The subscription whose subscribe_to_events call started the thread.
SubscriptionOf == [c1 |-> 1, c2 |-> 2]

ThreadMessage == Dumps(Envelope(EXCHANGE, <<"payment", "created">>,
                                Dict([payment_id |-> Num(1)]), 0, 0))

\* Line 21: a thread enters publish_event.
PublishCalled(t) ==
    /\ t_pc[t] = "idle"
    /\ Len(sent) + Cardinality({u \in Publishers : t_pc[u] # "idle"}) < MaxSent
    /\ t_pc' = [t_pc EXCEPT ![t] = "connect"]
    /\ UNCHANGED <<opened, pending, in_handler, arrivals>>
    /\ UNCHANGED <<busVars, subVars>>
    /\ UNCHANGED <<gwVars, rootVars, crudVars, apiVars>>

\* Line 17: the test of connect().
ConnectTested(t) ==
    /\ t_pc[t] = "connect"
    /\ t_pc' = [t_pc EXCEPT ![t] = IF connection # "open" THEN "opening"
                                   ELSE "exchange_declare"]
    /\ UNCHANGED <<opened, pending, in_handler, arrivals>>
    /\ UNCHANGED <<busVars, subVars>>
    /\ UNCHANGED <<gwVars, rootVars, crudVars, apiVars>>

\* Lines 18-19: a connection is opened and assigned, then its channel.
ConnectionOpened(t) ==
    /\ t_pc[t] = "opening"
    /\ opened' = opened + 1
    /\ connection' = "open"
    /\ channel' = "open"
    /\ t_pc' = [t_pc EXCEPT ![t] = "exchange_declare"]
    /\ UNCHANGED <<pending, in_handler, arrivals>>
    /\ UNCHANGED <<stale, clock, sent, last_publish>>
    /\ UNCHANGED subVars
    /\ UNCHANGED <<gwVars, rootVars, crudVars, apiVars>>

\* Line 25: the thread enters self.channel.exchange_declare.
DeclareEntered(t) ==
    /\ t_pc[t] = "exchange_declare"
    /\ t_pc' = [t_pc EXCEPT ![t] = "in_exchange_declare"]
    /\ UNCHANGED <<opened, pending, in_handler, arrivals>>
    /\ UNCHANGED <<busVars, subVars>>
    /\ UNCHANGED <<gwVars, rootVars, crudVars, apiVars>>

\* Lines 25-34: exchange_declare returns, the envelope is built and the
\* thread enters self.channel.basic_publish.
PublishEntered(t) ==
    /\ t_pc[t] = "in_exchange_declare"
    /\ t_pc' = [t_pc EXCEPT ![t] = "in_basic_publish"]
    /\ UNCHANGED <<opened, pending, in_handler, arrivals>>
    /\ UNCHANGED <<busVars, subVars>>
    /\ UNCHANGED <<gwVars, rootVars, crudVars, apiVars>>

\* Lines 34-41: basic_publish returns and with it publish_event.
PublishReturned(t) ==
    /\ t_pc[t] = "in_basic_publish"
    /\ LET event_data == Dict([payment_id |-> Num(1)])
           routing_key == <<"payment", "created">>
           message == [exchange    |-> EXCHANGE,
                       routing_key |-> routing_key,
                       body        |-> Dumps(Envelope(EXCHANGE, routing_key,
                                                      event_data, clock,
                                                      clock)),
                       properties  |-> [delivery_mode |-> 2]]
       IN  /\ sent' = Append(sent, message)
           /\ last_publish' =
                  PublishRecord(EXCHANGE, routing_key, event_data, "none",
                                [caught |-> None, propagated |-> None])
    /\ t_pc' = [t_pc EXCEPT ![t] = "idle"]
    /\ UNCHANGED <<opened, pending, in_handler, arrivals>>
    /\ UNCHANGED <<connection, channel, stale, clock>>
    /\ UNCHANGED subVars
    /\ UNCHANGED <<gwVars, rootVars, crudVars, apiVars>>

\* Lines 45-83: a subscribe_to_events call, made while no other thread is
\* inside the MessageBroker.  It connects if needed, registers the consumer
\* and starts its thread with target=self.channel.start_consuming.  When
\* another thread is already inside start_consuming of the same channel the
\* two calls race on the state of the connection object: the new call can
\* start to consume as well, or can be refused and end the thread at once.
Subscribed(c) ==
    /\ t_pc[c] = "unstarted"
    /\ \A t \in Publishers : t_pc[t] = "idle"
    /\ opened' = IF connection # "open" THEN opened + 1 ELSE opened
    /\ connection' = "open"
    /\ channel' = "open"
    /\ \E started \in BOOLEAN :
          /\ (\A d \in Consumers : t_pc[d] \in {"unstarted", "dead"})
                 => started
          /\ t_pc' = [t_pc EXCEPT ![c] = IF started THEN "consuming"
                                         ELSE "dead"]
    /\ subscription' = "consuming"
    /\ UNCHANGED <<pending, in_handler, arrivals>>
    /\ UNCHANGED <<stale, clock, sent, last_publish>>
    /\ UNCHANGED <<queue, next_tag, settlements, handled>>
    /\ UNCHANGED <<gwVars, rootVars, crudVars, apiVars>>

\* The broker delivers a message for the consumer registered by c: it joins
\* the pending events of the shared channel.
MessageArrives(c) ==
    /\ t_pc[c] # "unstarted"
    /\ arrivals < MaxArrivals
    /\ arrivals' = arrivals + 1
    /\ pending' = Append(pending, [subscription |-> SubscriptionOf[c],
                                   delivery_tag |-> arrivals + 1,
                                   body |-> ThreadMessage])
    /\ UNCHANGED <<t_pc, opened, in_handler>>
    /\ UNCHANGED <<busVars, subVars>>
    /\ UNCHANGED <<gwVars, rootVars, crudVars, apiVars>>

\* A thread inside start_consuming takes the next pending event of the
\* channel and calls the wrapper registered for its consumer (line 63).
HandlerEntered(c) ==
    /\ t_pc[c] = "consuming"
    /\ pending # <<>>
    /\ in_handler' = [in_handler EXCEPT ![c] = Head(pending)]
    /\ pending' = Tail(pending)
    /\ t_pc' = [t_pc EXCEPT ![c] = "in_handler"]
    /\ UNCHANGED <<opened, arrivals>>
    /\ UNCHANGED <<busVars, subVars>>
    /\ UNCHANGED <<gwVars, rootVars, crudVars, apiVars>>

\* Lines 64-70: the callback ends, wrapper settles the message and returns
\* into start_consuming.
HandlerLeft(c) ==
    /\ t_pc[c] = "in_handler"
    /\ \E outcome \in CallbackOutcomes :
          LET delivery == in_handler[c]
              done == wrapper(delivery, outcome)
          IN  /\ settlements' = settlements \o done.calls
              /\ handled' = Append(handled,
                                   [delivery_tag |-> delivery.delivery_tag,
                                    body |-> delivery.body,
                                    callback |-> done.callback])
    /\ in_handler' = [in_handler EXCEPT ![c] = None]
    /\ t_pc' = [t_pc EXCEPT ![c] = "consuming"]
    /\ UNCHANGED <<opened, pending, arrivals>>
    /\ UNCHANGED <<subscription, queue, next_tag>>
    /\ UNCHANGED busVars
    /\ UNCHANGED <<gwVars, rootVars, crudVars, apiVars>>

GatewayInit ==
    /\ pc = "idle"
    /\ request = None
    /\ path = <<>>
    /\ user_data = None
    /\ service_url = ""
    /\ forward_path = <<>>
    /\ downstream_calls = <<>>
    /\ response = None
    /\ downstream_result = None

RootInit ==
    /\ root_pc = "idle"
    /\ probes_started = <<>>
    /\ probe_outcome = <<>>
    /\ stats = None
    /\ root_response = None

BusInit ==
    /\ connection = "none"
    /\ channel = "none"
    /\ stale = FALSE
    /\ clock = 0
    /\ sent = <<>>
    /\ last_publish = None

SubInit ==
    /\ subscription = "none"
    /\ queue = <<>>
    /\ next_tag = 1
    /\ settlements = <<>>
    /\ handled = <<>>

CrudInit ==
    /\ payments = <<>>
    /\ payment_logs = <<>>
    /\ applications = <<>>
    /\ schedules = <<>>
    /\ last_op = None

ThreadInit ==
    /\ t_pc = [t \in Threads |-> IF t \in Publishers THEN "idle"
                                 ELSE "unstarted"]
    /\ opened = 0
    /\ pending = <<>>
    /\ in_handler = [c \in Consumers |-> None]
    /\ arrivals = 0

ApiInit ==
    /\ tasks = <<>>
    /\ policies = <<>>
    /\ insurance_claims = <<>>
    /\ last_call = None
    /\ users = Registered
    /\ reviews = [t \in Reviewers |-> None]

Init ==
    /\ GatewayInit
    /\ RootInit
    /\ BusInit
    /\ SubInit
    /\ CrudInit
    /\ ThreadInit
    /\ ApiInit

Next ==
    \/ GatewayHandler
    \/ ClientResponds
    \/ ClientRaises
    \/ ReturnResponse

Spec == Init /\ [][Next]_vars

\* client.request runs under timeout=30.0 (line 188): the await ends with an
\* answer or an exception, and the handler then returns.
SpecFair ==
    Spec /\ WF_vars(ClientResponds \/ ClientRaises) /\ WF_vars(ReturnResponse)

RootNext ==
    \/ ReadRoot
    \/ ProbeAnswers
    \/ ProbeRaises
    \/ RootReturn

SpecRoot == Init /\ [][RootNext]_vars

BusNext ==
    \/ PublishEvent
    \/ Tick
    \/ ConnectionDrops

SpecBus == Init /\ [][BusNext]_vars

SubNext ==
    \/ SubscribeToEvents
    \/ BrokerDelivers
    \/ OnMessage

SpecSub == Init /\ [][SubNext]_vars

\* start_consuming (lines 75-80) keeps calling wrapper while messages are
\* ready: the consuming thread is never starved of a ready message.
SpecSubFair == SpecSub /\ WF_vars(OnMessage)

\* A process that subscribes and publishes over a connection that can drop.
ReconnectNext ==
    \/ SubscribeToEvents
    \/ ConnectionDrops
    \/ PublishEvent

SpecReconnect == Init /\ [][ReconnectNext]_vars

ThreadNext ==
    \/ \E t \in Publishers :
          \/ PublishCalled(t)
          \/ ConnectTested(t)
          \/ ConnectionOpened(t)
          \/ DeclareEntered(t)
          \/ PublishEntered(t)
          \/ PublishReturned(t)
    \/ \E c \in Consumers :
          \/ Subscribed(c)
          \/ MessageArrives(c)
          \/ HandlerEntered(c)
          \/ HandlerLeft(c)

SpecThreads == Init /\ [][ThreadNext]_vars

CrudNext ==
    \/ CreatePayment
    \/ ProcessPayment
    \/ CreateApplication
    \/ SubmitApplication
    \/ ReviewApplication

SpecCrud == Init /\ [][CrudNext]_vars

PayNext ==
    \/ CreatePaymentCalled
    \/ GatewayCreatePayment
    \/ ProcessPaymentBackground
    \/ GetPayment
    \/ GetUserPayments
    \/ GatewayUserPayments
    \/ GetOrderPayments
    \/ CancelPayment

SpecPay == Init /\ [][PayNext]_vars

InsuranceNext ==
    \/ CreateQuote
    \/ PurchasePolicy
    \/ ActivatePolicy

SpecInsurance == Init /\ [][InsuranceNext]_vars

\* The insurance service with its claims; the policies table is kept to
\* MaxPolicies rows here.
ClaimsNext ==
    /\ \/ CreateQuote
       \/ PurchasePolicy
       \/ ActivatePolicy
       \/ CreateClaim
       \/ ProcessClaim
    /\ Len(policies') <= MaxPolicies

SpecClaims == Init /\ [][ClaimsNext]_vars

FinancingNext ==
    \/ CreateApplicationCalled
    \/ SubmitApplicationCalled
    \/ ReviewApplicationCalled

SpecFinancing == Init /\ [][FinancingNext]_vars

ReviewNext ==
    \/ CreateApplication
    \/ SubmitApplication
    \/ \E t \in Reviewers : ReviewQueried(t)
    \/ \E t \in Reviewers : ReviewCommitted(t)

SpecReview == Init /\ [][ReviewNext]_vars

\* The operations of the three CRUD classes; the tables hold MaxRecords
\* records in all.
TransitionsNext ==
    /\ \/ CreatePayment
       \/ ProcessPayment
       \/ CancelPaymentCrud
       \/ CreateApplication
       \/ SubmitApplication
       \/ ReviewApplication
       \/ CreatePolicyQuoteCrud
       \/ PurchasePolicyCrud
       \/ ActivatePolicyCrud
       \/ CreateClaimCrud
       \/ ProcessClaimCrud
    /\ Len(payments') + Len(applications') + Len(policies')
           + Len(insurance_claims') <= MaxRecords

SpecTransitions == Init /\ [][TransitionsNext]_vars

AuthNext ==
    \/ UpdateUser

SpecAuth == Init /\ [][AuthNext]_vars

\* ------------------------------------------------------------ properties
\* Vocabulary of the properties below, over the request in hand.
HeaderAbsent == "authorization" \notin DOMAIN request.headers
Authorization == IF HeaderAbsent THEN <<>> ELSE request.headers["authorization"]
BearerCredential == Len(Authorization) >= 2 /\ Authorization[1] = "Bearer"
CarriesNoClaims ==
    ~BearerCredential \/ Authorization[2] \notin DOMAIN TokenClaims
InvalidBearer ==
    BearerCredential /\ Authorization[2] \notin DOMAIN TokenClaims
Routed == RouteIndex(path) # 0
MatchesNoPrefix ==
    \A s \in {"auth", "payment", "financing", "insurance"} :
        path # <<s>> /\ ~StartsWith(path, <<s, SEP>>)
RemainingPath ==
    SubSeq(path, Len(ROUTES[RouteIndex(path)].prefix) + 1, Len(path))
Forwarded == Len(downstream_calls) = 1
NotForwarded == downstream_calls = <<>>
RaisedByClient == downstream_result # None /\ "cls" \in DOMAIN downstream_result
AnsweredByService == downstream_result # None /\ "text" \in DOMAIN downstream_result

\* C1: a request to a path that is not public and carries no Authorization
\* header is answered 401 and no downstream call is made for it.
C1_NoHeaderOnProtectedIs401 ==
    (pc # "idle" /\ ~is_public_endpoint_match(path) /\ HeaderAbsent)
        => /\ pc = "done"
           /\ response.status_code = 401
           /\ NotForwarded
           /\ downstream_result = None

C1_Witness ==
    /\ pc = "done"
    /\ path = <<"payment", SEP, "payments">>
    /\ HeaderAbsent
    /\ response.status_code = 401
    /\ NotForwarded

C3_RootAndHealthForwardedWithoutClaims ==
    (pc # "idle" /\ Routed /\ RemainingPath \in {<<>>, <<"health">>}
        /\ CarriesNoClaims)
        => /\ Forwarded
           /\ downstream_calls[1].url
                  = Url(ROUTES[RouteIndex(path)].url, RemainingPath)
           /\ pc = "done" => downstream_result # None

C3_Witness ==
    /\ pc = "done"
    /\ path = <<"insurance", SEP, "health">>
    /\ HeaderAbsent
    /\ Forwarded
    /\ AnsweredByService
    /\ response.status_code = 200

C5_EveryRolePassesRoleCheck ==
    (pc # "idle" /\ RouteIndex(path) \in {2, 3, 4}
        /\ RemainingPath \notin {<<>>, <<"health">>}
        /\ ~CarriesNoClaims
        /\ TokenClaims[Authorization[2]].role \in {"client", "manager", "admin"})
        => /\ Forwarded
           /\ user_data = TokenClaims[Authorization[2]]
           /\ pc = "done" => downstream_result # None

C5_Witness ==
    /\ pc = "forwarding"
    /\ path = <<"financing", SEP, "payments">>
    /\ user_data # None
    /\ user_data.role = "client"
    /\ Forwarded

\* C6: on a path that is not public, a request whose Authorization header
\* is absent or does not start with "Bearer " is answered 401
\* "Authentication required", one whose Bearer token fails verification is
\* answered 401 "Invalid token", and neither is forwarded.
C6_TwoKindsOf401 ==
    (pc # "idle" /\ ~is_public_endpoint_match(path) /\ CarriesNoClaims)
        => /\ pc = "done"
           /\ NotForwarded
           /\ response = IF InvalidBearer
                         THEN Detail(401, "Invalid token")
                         ELSE Detail(401, "Authentication required")

C6_Witness ==
    /\ pc = "done"
    /\ ~is_public_endpoint_match(path)
    /\ Authorization = <<"Bearer", "tok_expired">>
    /\ response = Detail(401, "Invalid token")
    /\ NotForwarded

\* The same request sent without its Authorization header.
WithoutAuthorization ==
    Handle(request.method, request.path,
           [k \in (DOMAIN request.headers) \ {"authorization"}
               |-> request.headers[k]],
           request.body)

\* C7: on a public path a Bearer token that fails verification is treated
\* as no credential: the request is not answered 401 for it, and the
\* gateway decides (claims, route, denial or downstream call) as it decides
\* for the same request without the Authorization header.
C7_InvalidTokenOnPublicTolerated ==
    (pc # "idle" /\ is_public_endpoint_match(path) /\ InvalidBearer)
        => /\ user_data = None
           /\ user_data = WithoutAuthorization.user_data
           /\ service_url = WithoutAuthorization.service_url
           /\ forward_path = WithoutAuthorization.forward_path
           /\ Len(downstream_calls) = Len(WithoutAuthorization.calls)
           /\ Forwarded =>
                 downstream_calls[1].url = WithoutAuthorization.calls[1].url
           /\ NotForwarded =>
                 /\ response = WithoutAuthorization.response
                 /\ response.status_code # 401

C7_Witness ==
    /\ pc = "forwarding"
    /\ path = <<"auth", SEP, "stats">>
    /\ Authorization = <<"Bearer", "tok_expired">>
    /\ user_data = None
    /\ Forwarded

TimeoutClasses == {"ConnectTimeout", "ReadTimeout"}
TransportClasses == {"ConnectError", "RemoteProtocolError", "TooManyRedirects"}

\* C8: a failure of the downstream call has exactly one client status: a
\* timeout gives 504 "Service timeout", any other request or transport
\* failure 502 "Service unavailable: <cause>", any other failure during
\* forwarding 500 "Internal error: <cause>".
C8_FailureMapping ==
    (pc = "done" /\ RaisedByClient)
        => response =
              IF downstream_result.cls \in TimeoutClasses
              THEN Detail(504, "Service timeout")
              ELSE IF downstream_result.cls \in TransportClasses
              THEN Detail(502, "Service unavailable: " \o downstream_result.msg)
              ELSE Detail(500, "Internal error: " \o downstream_result.msg)

C8_Witness ==
    /\ pc = "done"
    /\ RaisedByClient
    /\ downstream_result.cls = "ReadTimeout"
    /\ response = Detail(504, "Service timeout")

\* C9 as claimed: when the downstream service answers, the gateway's status
\* is the downstream status and the content is the downstream body, parsed
\* when the content type starts with application/json, raw text otherwise.
C9_AnswerRelayed ==
    (pc = "done" /\ AnsweredByService)
        => /\ response.status_code = downstream_result.status_code
           /\ IF IsJsonContentType(downstream_result.content_type)
              THEN /\ IsJson(downstream_result.text)
                   /\ response.content = [json |-> JsonValue[downstream_result.text]]
              ELSE response.content = [text |-> downstream_result.text]

\* C10: the headers sent downstream are the inbound headers without host;
\* every other header, Authorization included, keeps its value.
C10_HeadersMinusHost ==
    Forwarded
        => /\ DOMAIN downstream_calls[1].headers
                  = (DOMAIN request.headers) \ {"host"}
           /\ \A k \in DOMAIN downstream_calls[1].headers :
                  downstream_calls[1].headers[k] = request.headers[k]

C10_Witness ==
    /\ Forwarded
    /\ DOMAIN request.headers = {"host", "authorization", "accept"}
    /\ DOMAIN downstream_calls[1].headers = {"authorization", "accept"}
    /\ downstream_calls[1].headers["authorization"] = <<"Bearer", "tok_manager">>

\* C11: a request whose path is health is answered by the gateway itself
\* with its own identity, for every method and every credential: no
\* credential is checked, no route is resolved, no downstream call is made.
C11_HealthAnsweredByGateway ==
    (pc # "idle" /\ path = <<"health">>)
        => /\ pc = "done"
           /\ response = [status_code |-> 200,
                          content |-> [status |-> "healthy",
                                       service |-> "api-gateway"]]
           /\ user_data = None
           /\ service_url = ""
           /\ NotForwarded
           /\ downstream_result = None

C11_Witness ==
    /\ pc = "done"
    /\ path = <<"health">>
    /\ request.method = "DELETE"
    /\ Authorization = <<"Bearer", "tok_expired">>
    /\ response.content = [status |-> "healthy", service |-> "api-gateway"]

BarePrefixes == {<<"auth">>, <<"payment">>, <<"financing">>, <<"insurance">>}
BackendOf ==
    [auth |-> AUTH_SERVICE_URL, payment |-> PAYMENT_SERVICE_URL,
     financing |-> FINANCING_SERVICE_URL, insurance |-> INSURANCE_SERVICE_URL]

\* C12 as claimed: a path equal to a route prefix, without a trailing
\* separator, resolves to the backend of the prefix with an empty remaining
\* path, as the prefix followed by "/" does, and is not answered 404.
C12_BarePrefixRouted ==
    (pc # "idle" /\ path \in BarePrefixes /\ ~CarriesNoClaims)
        => /\ Forwarded
           /\ downstream_calls[1].url = <<BackendOf[path[1]], SEP>>
           /\ forward_path = <<>>
           /\ response # Detail(404, "Service not found")

\* C13 as claimed: normalisation removes one leading separator only, so a
\* path parameter that arrives with two or more leading separators still
\* starts with a separator after normalisation and does not hit the health
\* short-circuit.
C13_KeepsAllButFirstSeparator ==
    (pc # "idle" /\ Len(request.path) >= 2
        /\ request.path[1] = SEP /\ request.path[2] = SEP)
        => /\ path # <<>>
           /\ path[1] = SEP
           /\ response # HEALTH_REPLY

\* C13 amended: normalisation removes every leading separator: the
\* normalised path never starts with a separator, it is the incoming path
\* without its leading separators, and the request is decided as the same
\* request with the separators already removed.
C13_StripsEveryLeadingSeparator ==
    pc # "idle"
        => /\ path = <<>> \/ path[1] # SEP
           /\ \E k \in 0..Len(request.path) : request.path = Slashes(k) \o path
           /\ LET same == Handle(request.method, path, request.headers,
                                 request.body)
              IN  /\ user_data = same.user_data
                  /\ service_url = same.service_url
                  /\ forward_path = same.forward_path
                  /\ downstream_calls = same.calls
                  /\ NotForwarded => response = same.response

C13_Witness ==
    /\ pc = "done"
    /\ request.path = <<SEP, SEP, "health">>
    /\ path = <<"health">>
    /\ response = HEALTH_REPLY

ServiceNames == {"auth", "payment", "financing", "insurance"}
ProbeReturned200(name) ==
    "status_code" \in DOMAIN probe_outcome[name]
        /\ probe_outcome[name].status_code = 200

\* C14 as claimed: GET / answers 200 with one slot for each of the four
\* services: the statistics of the backend when its probe returned 200, an
\* inline error value otherwise.
C14_SlotIsStatisticsWhen200 ==
    root_pc = "done"
        => /\ root_response.status_code = 200
           /\ DOMAIN root_response.content.services = ServiceNames
           /\ \A name \in ServiceNames :
                 ("error" \in DOMAIN root_response.content.services[name])
                     <=> ~ProbeReturned200(name)

\* C14 amended: GET / answers 200 with exactly one slot for each of the
\* four services: the statistics of the backend when its probe returned 200
\* with a body that is JSON text, an inline error value otherwise (probe
\* raised, status other than 200, or a 200 whose body does not parse).  No
\* probe outcome keeps a later probe from being made.
C14_SlotPerService ==
    root_pc = "done"
        => /\ root_response.status_code = 200
           /\ DOMAIN root_response.content.services = ServiceNames
           /\ DOMAIN probe_outcome = ServiceNames
           /\ \A name \in ServiceNames :
                 LET slot == root_response.content.services[name] IN
                 IF ProbeReturned200(name)
                       /\ probe_outcome[name].text = "{\"ok\": true}"
                 THEN slot = [ok |-> TRUE]
                 ELSE DOMAIN slot = {"error"}

C14_Witness ==
    /\ root_pc = "done"
    /\ "cls" \in DOMAIN probe_outcome["payment"]
    /\ root_response.content.services["payment"]
           = [error |-> "All connection attempts failed"]
    /\ root_response.content.services["auth"] = [ok |-> TRUE]
    /\ root_response.content.services["insurance"] = [ok |-> TRUE]
    /\ root_response.content.services["financing"] = [error |-> "HTTP 503"]

\* C15 as claimed: the probes of GET / are issued concurrently: while a
\* probe is awaited, the probes of all the other backends have been issued
\* too, none waits for another to complete.
C15_ProbesIssuedTogether ==
    root_pc = "probing" => Len(probes_started) = Len(SERVICES)

\* C16: publish_event never lets a failure reach its caller: whether the
\* connect, the exchange declaration, the serialisation of the envelope or
\* the send raises, the call returns normally.
C16_PublishNeverPropagates ==
    last_publish # None => last_publish.propagated = None

C16_Witness ==
    /\ last_publish # None
    /\ last_publish.caught = [cls |-> "TypeError", at |-> "json.dumps"]
    /\ last_publish.propagated = None
    /\ sent = last_publish.sent_before

EventIdOf(message) == Loads(message.body).dict.event_id

\* C18 as claimed: any two messages sent by publish_event carry different
\* event ids, also when exchange, routing key and payload are the same and
\* the clock reads the same.
C18_EventIdsUnique ==
    \A i, j \in 1..Len(sent) :
        i # j => EventIdOf(sent[i]) # EventIdOf(sent[j])

ReachedBroker ==
    /\ last_publish # None
    /\ last_publish.caught = None
    /\ last_publish.propagated = None

\* C19: a publish_event(exchange, routing_key, event_data) that reaches the
\* broker sends exactly one message, to that exchange with that routing
\* key, whose envelope has event_type equal to routing_key and payload
\* equal to event_data, flagged persistent (delivery mode 2).
C19_OneMessagePerPublish ==
    ReachedBroker
        => /\ Len(sent) = Len(last_publish.sent_before) + 1
           /\ SubSeq(sent, 1, Len(sent) - 1) = last_publish.sent_before
           /\ LET message == sent[Len(sent)] IN
              /\ message.exchange = last_publish.exchange
              /\ message.routing_key = last_publish.routing_key
              /\ message.properties.delivery_mode = 2
              /\ "json" \in DOMAIN message.body
              /\ message.body.json.dict.event_type
                     = [str |-> last_publish.routing_key]
              /\ message.body.json.dict.payload = last_publish.event_data

C19_Witness ==
    /\ ReachedBroker
    /\ Len(sent) = 2
    /\ sent[2].routing_key = <<"payment", "failed">>
    /\ sent[2].body.json.dict.event_type = [str |-> <<"payment", "failed">>]

SettlementsOf(tag) ==
    {i \in 1..Len(settlements) : settlements[i].delivery_tag = tag}

RowOf(table, id) ==
    IF table = "payments" THEN payments[id] ELSE applications[id]

InQueue(tag) ==
    \E i \in 1..Len(queue) : queue[i].delivery_tag = tag

HandledAs(tag, callback) ==
    \E k \in 1..Len(handled) :
        handled[k].delivery_tag = tag /\ handled[k].callback = callback

HandlerRaisedOn(tag) == HandledAs(tag, "raised")

WasHandled(tag) ==
    \E k \in 1..Len(handled) : handled[k].delivery_tag = tag

C25_PublishAfterDropIsSent ==
    (/\ last_publish # None
     /\ last_publish.connection_before = "closed"
            \/ last_publish.stale_before
     /\ last_publish.fault = "none"
     /\ "timestamp" \notin DOMAIN last_publish.event_data.dict)
        => /\ Len(sent) = Len(last_publish.sent_before) + 1
           /\ sent[Len(sent)].routing_key = last_publish.routing_key
           /\ connection = "open"
           /\ channel = "open"

\* C26 as claimed: a subscription that was made is consuming whenever the
\* MessageBroker holds an open connection and channel, also after the
\* connection was lost and a later call opened a new one.
C26_SubscriptionSurvivesReconnect ==
    (subscription # "none" /\ connection = "open" /\ channel = "open"
        /\ ~stale)
        => subscription = "consuming"

\* C22 as claimed: the handler invocations of one subscription never
\* overlap, also when several subscriptions each started a consuming thread
\* on the shared channel: no two threads are inside the callback with
\* messages of the same subscription, and a message of a subscription is
\* settled before the next one of that subscription enters the callback.
C22_HandlersNeverOverlap ==
    \A c, d \in Consumers :
        (c # d /\ in_handler[c] # None /\ in_handler[d] # None)
            => in_handler[c].subscription # in_handler[d].subscription

\* Threads that are inside a call on MessageBroker.channel.
OnChannel ==
    {t \in Publishers : t_pc[t] \in {"in_exchange_declare",
                                     "in_basic_publish"}}
        \cup {c \in Consumers : t_pc[c] = "consuming"}

\* C23 as claimed: at no time are two threads inside a call on the shared
\* channel, be it two publish_event callers or a publish_event caller and a
\* consuming thread.
C23_ChannelAccessExclusive ==
    Cardinality(OnChannel) <= 1

\* C24 as claimed: no connection exists before the first publish or
\* subscribe, and at any time at most one connection opened by the
\* MessageBroker is open, also when two threads make their first
\* publish_event call at the same time.
C24_AtMostOneConnection ==
    /\ connection = "none" => opened = 0
    /\ opened <= 1

\* Vocabulary of the endpoint properties: the last call made to a service.
Called(ops) == last_call # None /\ last_call.op \in ops
Answer == IF last_call.via = "gateway" THEN last_call.response.content.json
          ELSE last_call.response.content
RecordsUnchanged ==
    /\ payments = last_call.before.payments
    /\ payment_logs = last_call.before.payment_logs
    /\ policies = last_call.before.policies
    /\ sent = last_call.before.sent

\* C27: a state-changing operation of a downstream service that is called
\* directly without a valid credential is rejected and leaves the records
\* as they were; policy activation is one of these operations.
C27_NoCredentialNoChange ==
    (/\ Called({"create_payment", "cancel_payment", "create_quote",
                "purchase_policy", "activate_policy"})
     /\ last_call.via = "direct"
     /\ last_call.current_user = None)
        => /\ last_call.response.status_code >= 400
           /\ RecordsUnchanged

\* C28: cancel_payment by a caller who may cancel, for a payment that is
\* not pending, fails with "Payment cannot be cancelled" and leaves the
\* payment, the payment log and the published events as they were.
C28_CancelOnlyWhilePending ==
    (/\ Called({"cancel_payment"})
     /\ last_call.current_user # None
     /\ last_call.args.payment_id \in DOMAIN last_call.before.payments
     /\ LET payment == last_call.before.payments[last_call.args.payment_id]
        IN  /\ \/ payment.user_id = last_call.current_user.user_id
               \/ last_call.current_user.role = "admin"
            /\ payment.status # "pending")
        => /\ last_call.response.status_code = 400
           /\ last_call.response.content.detail = "Payment cannot be cancelled"
           /\ RecordsUnchanged

\* C29: every record that get_payment, get_user_payments or
\* get_order_payments returns to a caller who is not an admin is a payment
\* of that caller.
ReturnedIds ==
    IF last_call.op = "get_payment" THEN {Answer.id}
    ELSE {Answer[i].id : i \in DOMAIN Answer}
C29_OnlyOwnPaymentsReturned ==
    (/\ Called({"get_payment", "get_user_payments", "get_order_payments"})
     /\ last_call.response.status_code = 200
     /\ last_call.current_user.role # "admin")
        => \A id \in ReturnedIds :
               payments[id].user_id = last_call.current_user.user_id

\* C30: a payment created through the gateway by an authenticated user is
\* answered with status pending and belongs to that user; no payment ever
\* leaves the table or changes its user; and every payment list a user gets
\* holds all the payments of that user.
CreatedThroughGateway ==
    /\ Called({"create_payment"})
    /\ last_call.via = "gateway"
    /\ Len(payments) = Len(last_call.before.payments) + 1
OwnPaymentIds(user_id) ==
    {i \in DOMAIN payments : payments[i].user_id = user_id}
C30_CreatedPaymentPendingAndListed ==
    /\ [](CreatedThroughGateway
            => /\ last_call.current_user # None
               /\ last_call.response.status_code = 200
               /\ Answer.status = "pending"
               /\ Answer.payment_id = Len(payments)
               /\ payments[Len(payments)].user_id
                      = last_call.current_user.user_id)
    /\ []((Called({"get_user_payments"})
           /\ last_call.response.status_code = 200)
            => OwnPaymentIds(last_call.current_user.user_id)
                   \subseteq ReturnedIds)
    /\ [][\A i \in DOMAIN payments :
             /\ i \in DOMAIN payments'
             /\ payments'[i].user_id = payments[i].user_id]_vars
C30_Witness ==
    /\ Called({"get_user_payments"})
    /\ last_call.via = "gateway"
    /\ last_call.response.status_code = 200
    /\ \E id \in ReturnedIds : payments[id].status = "completed"

\* C31: every request handled by gateway_handler ends in exactly one terminal
\* outcome (health reply, 401, 403, 404, the relayed answer, 504, 502 or
\* 500) and makes at most one downstream call; the call is made only by the
\* step that has passed every denial, never after an outcome was decided.
GatewayAnswers ==
    {HEALTH_REPLY,
     Detail(401, "Authentication required"), Detail(401, "Invalid token"),
     Detail(403, "Insufficient permissions"), Detail(404, "Service not found")}
TerminalOutcome ==
    IF NotForwarded
    THEN response \in GatewayAnswers /\ downstream_result = None
    ELSE /\ response \notin GatewayAnswers
         /\ downstream_result # None
         /\ RaisedByClient => response.status_code \in {504, 502, 500}
         /\ AnsweredByService
                => response.status_code \in {downstream_result.status_code, 500}
C31_OneTerminalOutcome ==
    /\ [](/\ Len(downstream_calls) <= 1
          /\ pc = "idle" => NotForwarded /\ response = None
          /\ pc = "forwarding" => Forwarded /\ response = None
          /\ pc = "done" => response # None /\ TerminalOutcome)
    /\ [][/\ pc = "idle" => pc' \in {"forwarding", "done"}
          /\ pc = "forwarding"
                => pc' = "done" /\ downstream_calls' = downstream_calls
          /\ pc = "done" => pc' = "idle"]_gwVars
    /\ (pc # "idle") ~> (pc = "done")
C31_Witness ==
    /\ pc = "done"
    /\ Forwarded
    /\ RaisedByClient
    /\ response.status_code = 502

\* C32: whether a credential is needed is decided on the full normalised
\* path: a path is public exactly when it equals an allow-list entry or
\* starts with an entry followed by the separator.  A path that is not
\* public and comes without a valid Bearer credential is answered 401 and
\* nothing else is decided for it; a public path is never answered 401.
PublicByFullPath ==
    \E i \in 1..Len(PUBLIC_ENDPOINTS) :
        \/ path = PUBLIC_ENDPOINTS[i]
        \/ /\ Len(path) > Len(PUBLIC_ENDPOINTS[i])
           /\ SubSeq(path, 1, Len(PUBLIC_ENDPOINTS[i]) + 1)
                 = Append(PUBLIC_ENDPOINTS[i], SEP)
C32_PublicDecidedOnFullPath ==
    (pc # "idle" /\ path # <<"health">>)
        => IF PublicByFullPath
           THEN pc = "done" => response.status_code # 401
           ELSE CarriesNoClaims
                   => /\ pc = "done"
                      /\ response.status_code = 401
                      /\ NotForwarded
                      /\ service_url = ""
C32_Witness ==
    /\ pc = "done"
    /\ PublicByFullPath
    /\ \A i \in 1..Len(PUBLIC_ENDPOINTS) : path # PUBLIC_ENDPOINTS[i]
    /\ HeaderAbsent
    /\ response.status_code = 403

\* C34: once a payment is cancelled it stays cancelled: no later step, the
\* delayed background process_payment included, gives it another status.
C34_CancelledStaysCancelled ==
    [][\A i \in DOMAIN payments :
          payments[i].status = "cancelled"
              => payments'[i].status = "cancelled"]_vars

\* C36: a call of update_user made with a client's credential leaves every
\* user's role as it was; a role changes only through a manager's or an
\* admin's call.
C36_ClientCannotChangeRoles ==
    [][(/\ last_call' # None
        /\ last_call'.op = "update_user"
        /\ last_call'.current_user # None
        /\ last_call'.current_user.role = "client")
          => \A id \in DOMAIN users : users'[id].role = users[id].role]_vars

\* One step of a policy's status.
PolicyStep(old, new) ==
    \/ new = old
    \/ <<old, new>> \in {<<"quoted", "purchased">>, <<"purchased", "active">>}

C40_PaidWithinClaimed ==
    \A i \in DOMAIN insurance_claims :
        LET claim == insurance_claims[i] IN
        /\ claim.paid_amount <= claim.claimed_amount
        /\ claim.paid_amount <= policies[claim.policy_id].coverage_amount

\* One step of an application's status, and the call that may make it.
ApplicationStep(old, new, call) ==
    \/ new.status = old.status
    \/ /\ old.status = "draft" /\ new.status = "submitted"
       /\ call.op = "submit_application"
       /\ call.args.application_id = old.id
       /\ call.current_user # None
       /\ call.current_user.user_id = old.user_id
    \/ /\ old.status = "submitted" /\ new.status \in {"approved", "rejected"}
       /\ call.op = "review_application"
       /\ call.args.application_id = old.id
       /\ call.current_user # None
       /\ call.current_user.role \in {"manager", "admin"}

C35_ScheduleMatchesApproval ==
    (\A t \in Reviewers : reviews[t] = None)
        => \A i \in DOMAIN applications :
              LET entries == {k \in DOMAIN schedules :
                                 schedules[k].application_id = i}
              IN  IF applications[i].status = "approved"
                  THEN /\ Cardinality(entries) = applications[i].term_months
                       /\ \A n \in 1..applications[i].term_months :
                             \E k \in entries :
                                 schedules[k].payment_number = n
                  ELSE entries = {}

\* The record a transition is called on is missing or not in the state the
\* transition requires.
NotInRequiredState(op, id) ==
    LET Missing(table) == id \notin DOMAIN table IN
    CASE op = "submit_application" ->
           Missing(applications) \/ applications[id].status # "draft"
      [] op = "review_application" ->
           Missing(applications) \/ applications[id].status # "submitted"
      [] op = "purchase_policy" ->
           Missing(policies) \/ policies[id].status # "quoted"
      [] op = "activate_policy" ->
           Missing(policies) \/ policies[id].status # "purchased"
      [] op = "process_claim" ->
           Missing(insurance_claims)
               \/ insurance_claims[id].status # "submitted"
      [] op = "cancel_payment" ->
           Missing(payments) \/ payments[id].status \in {"completed", "failed"}
      [] OTHER -> FALSE

\* C37: a transition called on a record that is missing or not in the
\* required state returns None, leaves every record unchanged and publishes
\* no event.
C37_RefusedTransitionChangesNothing ==
    [][(last_op' # None /\ NotInRequiredState(last_op'.op, last_op'.id))
          => /\ last_op'.result = None
             /\ last_op'.publish = None
             /\ last_op'.effects = <<"return">>
             /\ payments' = payments /\ payment_logs' = payment_logs
             /\ applications' = applications /\ schedules' = schedules
             /\ policies' = policies
             /\ insurance_claims' = insurance_claims
             /\ sent' = sent /\ last_publish' = last_publish]_vars
C37_Witness ==
    /\ last_op # None
    /\ last_op.op = "process_claim"
    /\ last_op.result = None
    /\ last_op.id \in DOMAIN insurance_claims
    /\ insurance_claims[last_op.id].status = "approved"
    /\ \E i \in DOMAIN policies : policies[i].status = "active"

====
